---- MODULE Spec2Model ----
(***************************************************************************)
(* The FusionAI ledger: the model registry and the marketplace contracts.  *)
(*                                                                         *)
(* The repository holds two generations of each contract:                  *)
(*   FusionAI_ModelRegistry / FusionAI_Marketplace            (plain)      *)
(*   FusionAI_ModelRegistryUpgradeable / FusionAI_MarketplaceUpgradeable   *)
(* Every external function is an operator from the world before the call   *)
(* (contract storage, balances, block timestamp) and the call's arguments  *)
(* to a result: success or revert, the return value, the events emitted    *)
(* and the world after the call.  A revert gives back the world it was     *)
(* called in.  Every action of a specification is one transaction.         *)
(***************************************************************************)
EXTENDS Integers, Sequences, FiniteSets, TLC

VARIABLES
    deployment,         \* which generation of the contracts is deployed
    models,             \* registry: mapping(uint256 => Model)
    ipfsHashExists,     \* registry: mapping(string => bool)
    modelCounter,       \* registry: uint256 _modelCounter
    operators,          \* registry (upgradeable): mapping(address => bool)
    registryOwner,      \* registry (upgradeable): OwnableUpgradeable owner
    copySales,          \* marketplace: mapping(uint256 => CopySale)
    subscriptions,      \* marketplace: mapping(uint256 => Subscription)
    userSubscriptions,  \* marketplace: mapping(uint256 => mapping(address => uint256))
    platformFeeWallet,  \* marketplace: address
    platformFeePercent, \* marketplace: uint256
    marketOwner,        \* marketplace: Ownable owner
    balance,            \* ether held by every account
    now,                \* block.timestamp
    last                \* the last transaction: function, outcome, return value,
                        \* number of events emitted

registryVars == <<models, ipfsHashExists, modelCounter, operators, registryOwner>>

marketVars ==
    <<copySales, subscriptions, userSubscriptions, platformFeeWallet,
      platformFeePercent, marketOwner>>

vars == <<deployment, registryVars, marketVars, balance, now, last>>

-----------------------------------------------------------------------------
(* Bounds of the model *)

\* the registry specification offers registerModel until this many models
\* are registered
MaxModels == 2
\* listItemForCopies is tried with totalCopies in 0 .. MaxCopies
MaxCopies == 2
\* the block timestamp advances up to this value
MaxTime == 3

-----------------------------------------------------------------------------
(* Addresses, content hashes, sale types, amounts *)

ZeroAddress == "0x0"
\* the initial owner of both contracts (the platform administrator)
Admin == "admin"
MarketplaceAddress == "marketplace"
\* a contract account without a payable receive function: it sends
\* transactions like any account, and every ether transfer to it fails
Vault == "vault"
\* the externally owned account that collects the platform fee
Treasury == "treasury"

Addresses ==
    {ZeroAddress, Admin, MarketplaceAddress, Vault, Treasury, "dev", "alice", "bob"}

\* the addresses whose code rejects a plain ether transfer
NonPayable == {MarketplaceAddress, Vault}

\* accounts that send transactions to the registry
RegistryCallers == {Admin, "dev", "alice"}
\* accounts that register models in the registry specification
Registrants == {"dev", "alice"}
\* addresses the administrator approves or revokes as operators
OperatorCandidates == {"alice"}
\* content hashes given to the registry
Hashes == {"", "QmA", "QmB"}

SaleType == {"NotForSale", "Copies", "Subscription"}
\* sale types given to the registry in the registry specification
SaleTypeInputs == {"NotForSale", "Copies"}

\* the ids of the mapping the model tracks: 0 .. MaxModels-1 can be
\* registered, the last id is never registered
ModelIds == 0 .. MaxModels

\* accounts that register and list models in the marketplace specification
Sellers == {"dev", Vault}
\* accounts that call the listing functions
ListingCallers == Sellers \cup {"alice"}
\* accounts that pay: buyCopy and subscribe
Buyers == {"alice", "bob"}
\* accounts that call the administrator's functions
AdminCallers == {Admin, "alice"}
\* the hash registered in the marketplace specification: the registry
\* takes a hash once, so one model is registered and listed there
MarketHashes == {"QmA"}
\* ids given to the marketplace: the registered model and an id that is
\* never registered
MarketIds == 0 .. 1

PriceInputs == {0, 50}
RateInputs == {0, 50}
DurationInputs == {1}
\* msg.value of the payable calls
PaymentInputs == {40, 50, 60}
FeePercentInputs == {0, 5, 101}
ForcedEther == 50

FeeWalletInputs == {ZeroAddress, Treasury, Vault}

\* ether held by the accounts when the contracts are deployed
InitialBalance ==
    [a \in Addresses |-> IF a = "alice" THEN 100 ELSE IF a = "bob" THEN 50 ELSE 0]

DefaultModel ==
    [owner |-> ZeroAddress, ipfsMetadataHash |-> "", listTimestamp |-> 0,
     saleType |-> "NotForSale"]

DefaultCopySale == [price |-> 0, totalCopies |-> 0, soldCopies |-> 0]

DefaultSubscription == [rate |-> 0, durationSeconds |-> 0]

-----------------------------------------------------------------------------
(* Worlds and call results *)

World ==
    [models |-> models, ipfsHashExists |-> ipfsHashExists,
     modelCounter |-> modelCounter, operators |-> operators,
     registryOwner |-> registryOwner,
     copySales |-> copySales, subscriptions |-> subscriptions,
     userSubscriptions |-> userSubscriptions,
     platformFeeWallet |-> platformFeeWallet,
     platformFeePercent |-> platformFeePercent, marketOwner |-> marketOwner,
     balance |-> balance, now |-> now]

NoReturn == -1

\* the call reverts: nothing it did is kept, nothing is emitted
Revert(w, err) ==
    [ok |-> FALSE, err |-> err, ret |-> NoReturn, events |-> <<>>, w |-> w]

\* the call returns normally in world w
Return(w, ret, events) ==
    [ok |-> TRUE, err |-> "", ret |-> ret, events |-> events, w |-> w]

EvModelRegistered(modelId, owner, hash, saleType) ==
    [name |-> "ModelRegistered", modelId |-> modelId, owner |-> owner,
     ipfsMetadataHash |-> hash, saleType |-> saleType]

EvModelMetadataUpdated(modelId, hash) ==
    [name |-> "ModelMetadataUpdated", modelId |-> modelId,
     newIpfsMetadataHash |-> hash]

EvModelSaleTypeSet(modelId, saleType) ==
    [name |-> "ModelSaleTypeSet", modelId |-> modelId, newSaleType |-> saleType]

EvOperatorSet(operator, approved) ==
    [name |-> "OperatorSet", operator |-> operator, approved |-> approved]

EvItemListedForCopies(modelId, owner, price, totalCopies) ==
    [name |-> "ItemListedForCopies", modelId |-> modelId, owner |-> owner,
     price |-> price, totalCopies |-> totalCopies]

EvItemPurchased(modelId, buyer, price, seller, platformWallet, platformFee) ==
    [name |-> "ItemPurchased", modelId |-> modelId, buyer |-> buyer,
     price |-> price, seller |-> seller, platformWallet |-> platformWallet,
     platformFee |-> platformFee]

EvPlatformFeesWithdrawn(owner, amount) ==
    [name |-> "PlatformFeesWithdrawn", owner |-> owner, amount |-> amount]

EvItemListedForSubscription(modelId, owner, rate, durationSeconds) ==
    [name |-> "ItemListedForSubscription", modelId |-> modelId, owner |-> owner,
     rate |-> rate, durationSeconds |-> durationSeconds]

EvSubscribed(modelId, subscriber, expiryTimestamp) ==
    [name |-> "Subscribed", modelId |-> modelId, subscriber |-> subscriber,
     expiryTimestamp |-> expiryTimestamp]

ErrHashRegistered == "Registry: IPFS hash already registered"
ErrHashEmpty == "Registry: IPFS hash cannot be empty"
ErrNewHashEmpty == "Registry: New IPFS hash cannot be empty"
ErrNewHashRegistered == "Registry: New IPFS hash already registered by another model"
ErrNotModelOwner == "Registry: Caller is not the model owner"
ErrNotOwnerOrOperator == "Registry: Caller is not the model owner or approved operator"
ErrOwnableUnauthorized == "OwnableUnauthorizedAccount"

-----------------------------------------------------------------------------
(* FusionAI_ModelRegistry *)

onlyModelOwner(w, sender, modelId) == w.models[modelId].owner = sender

\* registerModel numbering the models from 1: the id is the incremented counter
Registry_registerModel_FromOne(w, sender, hash, saleType) ==
    IF w.ipfsHashExists[hash] THEN Revert(w, ErrHashRegistered)
    ELSE IF ~(Len(hash) > 0) THEN Revert(w, ErrHashEmpty)
    ELSE
      LET newModelId == w.modelCounter + 1
          w1 == [w EXCEPT
                   !.models[newModelId] =
                       [owner |-> sender, ipfsMetadataHash |-> hash,
                        listTimestamp |-> w.now, saleType |-> saleType],
                   !.ipfsHashExists[hash] = TRUE,
                   !.modelCounter = w.modelCounter + 1]
      IN  Return(w1, newModelId,
                 <<EvModelRegistered(newModelId, sender, hash, saleType)>>)

Registry_registerModel(w, sender, hash, saleType) ==
    IF w.ipfsHashExists[hash] THEN Revert(w, ErrHashRegistered)
    ELSE IF ~(Len(hash) > 0) THEN Revert(w, ErrHashEmpty)
    ELSE
      LET newModelId == w.modelCounter
          w1 == [w EXCEPT
                   !.models[newModelId] =
                       [owner |-> sender, ipfsMetadataHash |-> hash,
                        listTimestamp |-> w.now, saleType |-> saleType],
                   !.ipfsHashExists[hash] = TRUE,
                   !.modelCounter = w.modelCounter + 1]
      IN  Return(w1, newModelId,
                 <<EvModelRegistered(newModelId, sender, hash, saleType)>>)

\* updateModelMetadata that leaves the old hash marked as registered
Registry_updateModelMetadata_KeepsOld(w, sender, modelId, newHash) ==
    IF ~onlyModelOwner(w, sender, modelId) THEN Revert(w, ErrNotModelOwner)
    ELSE IF ~(Len(newHash) > 0) THEN Revert(w, ErrNewHashEmpty)
    ELSE IF w.models[modelId].ipfsMetadataHash # newHash THEN
      IF w.ipfsHashExists[newHash] THEN Revert(w, ErrNewHashRegistered)
      ELSE Return([w EXCEPT
                     !.ipfsHashExists[newHash] = TRUE,
                     !.models[modelId].ipfsMetadataHash = newHash],
                  NoReturn, <<EvModelMetadataUpdated(modelId, newHash)>>)
    ELSE Return(w, NoReturn, <<>>)

Registry_updateModelMetadata(w, sender, modelId, newHash) ==
    IF ~onlyModelOwner(w, sender, modelId) THEN Revert(w, ErrNotModelOwner)
    ELSE IF ~(Len(newHash) > 0) THEN Revert(w, ErrNewHashEmpty)
    ELSE IF w.models[modelId].ipfsMetadataHash # newHash THEN
      LET w1 == [w EXCEPT
                   !.ipfsHashExists[w.models[modelId].ipfsMetadataHash] = FALSE]
      IN  IF w1.ipfsHashExists[newHash] THEN Revert(w, ErrNewHashRegistered)
          ELSE Return([w1 EXCEPT
                         !.ipfsHashExists[newHash] = TRUE,
                         !.models[modelId].ipfsMetadataHash = newHash],
                      NoReturn, <<EvModelMetadataUpdated(modelId, newHash)>>)
    ELSE Return(w, NoReturn, <<>>)

\* setSaleType that writes and emits even when the sale type is the same
Registry_setSaleType_AlwaysEmits(w, sender, modelId, saleType) ==
    IF ~onlyModelOwner(w, sender, modelId) THEN Revert(w, ErrNotModelOwner)
    ELSE Return([w EXCEPT !.models[modelId].saleType = saleType],
                NoReturn, <<EvModelSaleTypeSet(modelId, saleType)>>)

Registry_setSaleType(w, sender, modelId, saleType) ==
    IF ~onlyModelOwner(w, sender, modelId) THEN Revert(w, ErrNotModelOwner)
    ELSE IF w.models[modelId].saleType # saleType THEN
      Return([w EXCEPT !.models[modelId].saleType = saleType],
             NoReturn, <<EvModelSaleTypeSet(modelId, saleType)>>)
    ELSE Return(w, NoReturn, <<>>)

Registry_getModel(w, modelId) == w.models[modelId]

Registry_getModelIdCounter(w) == w.modelCounter

Registry_modelCount(w) == w.modelCounter

-----------------------------------------------------------------------------
(* FusionAI_ModelRegistryUpgradeable *)

onlyModelOwnerOrOperator(w, sender, modelId) ==
    w.models[modelId].owner = sender \/ w.operators[sender]

RegistryUp_setOperator(w, sender, operator, approved) ==
    IF sender # w.registryOwner THEN Revert(w, ErrOwnableUnauthorized)
    ELSE Return([w EXCEPT !.operators[operator] = approved],
                NoReturn, <<EvOperatorSet(operator, approved)>>)

\* registerModel returning the counter after the increment
RegistryUp_registerModel_ReturnsCount(w, sender, hash, saleType) ==
    IF w.ipfsHashExists[hash] THEN Revert(w, ErrHashRegistered)
    ELSE
      LET modelId == w.modelCounter
          w1 == [w EXCEPT
                   !.models[modelId] =
                       [owner |-> sender, ipfsMetadataHash |-> hash,
                        listTimestamp |-> w.now, saleType |-> saleType],
                   !.ipfsHashExists[hash] = TRUE,
                   !.modelCounter = w.modelCounter + 1]
      IN  Return(w1, w1.modelCounter,
                 <<EvModelRegistered(modelId, sender, hash, saleType)>>)

RegistryUp_registerModel(w, sender, hash, saleType) ==
    IF w.ipfsHashExists[hash] THEN Revert(w, ErrHashRegistered)
    ELSE
      LET modelId == w.modelCounter
          w1 == [w EXCEPT
                   !.models[modelId] =
                       [owner |-> sender, ipfsMetadataHash |-> hash,
                        listTimestamp |-> w.now, saleType |-> saleType],
                   !.ipfsHashExists[hash] = TRUE,
                   !.modelCounter = w.modelCounter + 1]
      IN  Return(w1, modelId,
                 <<EvModelRegistered(modelId, sender, hash, saleType)>>)

RegistryUp_updateModelMetadata(w, sender, modelId, newHash) ==
    IF ~onlyModelOwnerOrOperator(w, sender, modelId)
    THEN Revert(w, ErrNotOwnerOrOperator)
    ELSE IF w.ipfsHashExists[newHash] THEN Revert(w, ErrNewHashRegistered)
    ELSE
      LET w1 == [w EXCEPT
                   !.ipfsHashExists[w.models[modelId].ipfsMetadataHash] = FALSE]
          w2 == [w1 EXCEPT !.ipfsHashExists[newHash] = TRUE]
          w3 == [w2 EXCEPT !.models[modelId].ipfsMetadataHash = newHash]
      IN  Return(w3, NoReturn, <<EvModelMetadataUpdated(modelId, newHash)>>)

\* setSaleType without its modifier
RegistryUp_setSaleType_NoModifier(w, sender, modelId, saleType) ==
    IF w.models[modelId].saleType # saleType THEN
      Return([w EXCEPT !.models[modelId].saleType = saleType],
             NoReturn, <<EvModelSaleTypeSet(modelId, saleType)>>)
    ELSE Return(w, NoReturn, <<>>)

RegistryUp_setSaleType(w, sender, modelId, saleType) ==
    IF ~onlyModelOwnerOrOperator(w, sender, modelId)
    THEN Revert(w, ErrNotOwnerOrOperator)
    ELSE IF w.models[modelId].saleType # saleType THEN
      Return([w EXCEPT !.models[modelId].saleType = saleType],
             NoReturn, <<EvModelSaleTypeSet(modelId, saleType)>>)
    ELSE Return(w, NoReturn, <<>>)

RegistryUp_getModel(w, modelId) == w.models[modelId]

RegistryUp_getModelIdCounter(w) == w.modelCounter

RegistryUp_modelCount(w) == w.modelCounter

-----------------------------------------------------------------------------
(* Ether *)

ErrInvalidModelId == "Marketplace_InvalidModelId"
ErrMarketNotModelOwner == "Marketplace_NotModelOwner"
ErrInvalidPrice == "Marketplace_InvalidPrice"
ErrInvalidTotalCopies == "Marketplace_InvalidTotalCopies"
ErrAlreadyListedForCopies == "Marketplace_AlreadyListedForCopies"
ErrNotListedForCopies == "Marketplace_NotListedForCopies"
ErrIncorrectPayment == "Marketplace_IncorrectPayment"
ErrSoldOut == "Marketplace_SoldOut"
ErrTransferFailed == "Marketplace_TransferFailed"
ErrInvalidFeePercent == "Marketplace_InvalidFeePercent"
ErrZeroAddress == "Marketplace_ZeroAddress"
ErrNoFeesToWithdraw == "Marketplace_NoFeesToWithdraw"
\* checked arithmetic of Solidity 0.8: Panic(0x11) on underflow
ErrArithmetic == "Panic(0x11)"

\* amount of ether goes from one account to another
Move(w, from, to, amount) ==
    [w EXCEPT !.balance =
        [a \in DOMAIN w.balance |->
            w.balance[a] - (IF a = from THEN amount ELSE 0)
                         + (IF a = to THEN amount ELSE 0)]]

\* a payable call: msg.value is the marketplace's when the body starts
Receive(w, sender, value) == Move(w, sender, MarketplaceAddress, value)

\* to.call{value: amount}(""): fails when the recipient's code rejects the
\* ether or the marketplace does not hold the amount
EtherCall(w, to, amount) ==
    IF to \in NonPayable \/ w.balance[MarketplaceAddress] < amount
    THEN [success |-> FALSE, w |-> w]
    ELSE [success |-> TRUE, w |-> Move(w, MarketplaceAddress, to, amount)]

\* _safeTransfer that does not look at the call's success
safeTransfer_Unchecked(w, to, amount) ==
    IF amount > 0
    THEN [ok |-> TRUE, w |-> EtherCall(w, to, amount).w]
    ELSE [ok |-> TRUE, w |-> w]

\* _safeTransfer of both marketplaces: ok is false where the code reverts
\* with Marketplace_TransferFailed
safeTransfer(w, to, amount) ==
    IF amount > 0
    THEN LET c == EtherCall(w, to, amount)
         IN  IF ~c.success THEN [ok |-> FALSE, w |-> w]
             ELSE [ok |-> TRUE, w |-> c.w]
    ELSE [ok |-> TRUE, w |-> w]

onlyOwner(w, sender) == sender = w.marketOwner

-----------------------------------------------------------------------------
(* FusionAI_Marketplace, deployed over FusionAI_ModelRegistry *)

Marketplace_constructor(w, registryAddress, initialOwner, feeWallet, feePercent) ==
    IF registryAddress = ZeroAddress \/ feeWallet = ZeroAddress
    THEN Revert(w, ErrZeroAddress)
    ELSE IF feePercent > 100 THEN Revert(w, ErrInvalidFeePercent)
    ELSE Return([w EXCEPT !.marketOwner = initialOwner,
                          !.platformFeeWallet = feeWallet,
                          !.platformFeePercent = feePercent],
                NoReturn, <<>>)

Marketplace_listItemForCopies(w, sender, modelId, price, totalCopies) ==
    IF price = 0 THEN Revert(w, ErrInvalidPrice)
    ELSE IF totalCopies = 0 THEN Revert(w, ErrInvalidTotalCopies)
    ELSE
      LET modelOwner == w.models[modelId].owner
      IN  IF modelOwner = ZeroAddress THEN Revert(w, ErrInvalidModelId)
          ELSE IF modelOwner # sender THEN Revert(w, ErrMarketNotModelOwner)
          ELSE IF w.copySales[modelId].price > 0
          THEN Revert(w, ErrAlreadyListedForCopies)
          ELSE Return([w EXCEPT !.copySales[modelId] =
                           [price |-> price, totalCopies |-> totalCopies,
                            soldCopies |-> 0]],
                      NoReturn,
                      <<EvItemListedForCopies(modelId, sender, price, totalCopies)>>)

\* buyCopy whose sold-out test is off by one
Marketplace_buyCopy_OffByOne(w, sender, value, modelId) ==
    LET w0 == Receive(w, sender, value)
        sale == w0.copySales[modelId]
    IN  IF sale.price = 0 THEN Revert(w, ErrNotListedForCopies)
        ELSE IF sale.soldCopies > sale.totalCopies THEN Revert(w, ErrSoldOut)
        ELSE IF value # sale.price THEN Revert(w, ErrIncorrectPayment)
        ELSE
          LET w1 == [w0 EXCEPT !.copySales[modelId].soldCopies = @ + 1]
              platformFeeAmount == (sale.price * w1.platformFeePercent) \div 100
              developerPayout == sale.price - platformFeeAmount
              seller == w1.models[modelId].owner
              t1 == safeTransfer(w1, w1.platformFeeWallet, platformFeeAmount)
              t2 == safeTransfer(t1.w, seller, developerPayout)
          IN  IF platformFeeAmount > sale.price THEN Revert(w, ErrArithmetic)
              ELSE IF seller = ZeroAddress THEN Revert(w, ErrInvalidModelId)
              ELSE IF ~t1.ok THEN Revert(w, ErrTransferFailed)
              ELSE IF ~t2.ok THEN Revert(w, ErrTransferFailed)
              ELSE Return(t2.w, NoReturn,
                          <<EvItemPurchased(modelId, sender, sale.price, seller,
                                            w1.platformFeeWallet,
                                            platformFeeAmount)>>)

\* buyCopy that leaves the platform fee in the marketplace for a later
\* withdrawPlatformFees
Marketplace_buyCopy_KeepsFee(w, sender, value, modelId) ==
    LET w0 == Receive(w, sender, value)
        sale == w0.copySales[modelId]
    IN  IF sale.price = 0 THEN Revert(w, ErrNotListedForCopies)
        ELSE IF sale.soldCopies >= sale.totalCopies THEN Revert(w, ErrSoldOut)
        ELSE IF value # sale.price THEN Revert(w, ErrIncorrectPayment)
        ELSE
          LET w1 == [w0 EXCEPT !.copySales[modelId].soldCopies = @ + 1]
              platformFeeAmount == (sale.price * w1.platformFeePercent) \div 100
              developerPayout == sale.price - platformFeeAmount
              seller == w1.models[modelId].owner
              t2 == safeTransfer(w1, seller, developerPayout)
          IN  IF platformFeeAmount > sale.price THEN Revert(w, ErrArithmetic)
              ELSE IF seller = ZeroAddress THEN Revert(w, ErrInvalidModelId)
              ELSE IF ~t2.ok THEN Revert(w, ErrTransferFailed)
              ELSE Return(t2.w, NoReturn,
                          <<EvItemPurchased(modelId, sender, sale.price, seller,
                                            w1.platformFeeWallet,
                                            platformFeeAmount)>>)

\* buyCopy that counts a sale down from totalCopies
Marketplace_buyCopy_ConsumesCapacity(w, sender, value, modelId) ==
    LET w0 == Receive(w, sender, value)
        sale == w0.copySales[modelId]
    IN  IF sale.price = 0 THEN Revert(w, ErrNotListedForCopies)
        ELSE IF sale.totalCopies = 0 THEN Revert(w, ErrSoldOut)
        ELSE IF value # sale.price THEN Revert(w, ErrIncorrectPayment)
        ELSE
          LET w1 == [w0 EXCEPT !.copySales[modelId].totalCopies = @ - 1]
              platformFeeAmount == (sale.price * w1.platformFeePercent) \div 100
              developerPayout == sale.price - platformFeeAmount
              seller == w1.models[modelId].owner
              t1 == safeTransfer(w1, w1.platformFeeWallet, platformFeeAmount)
              t2 == safeTransfer(t1.w, seller, developerPayout)
          IN  IF platformFeeAmount > sale.price THEN Revert(w, ErrArithmetic)
              ELSE IF seller = ZeroAddress THEN Revert(w, ErrInvalidModelId)
              ELSE IF ~t1.ok THEN Revert(w, ErrTransferFailed)
              ELSE IF ~t2.ok THEN Revert(w, ErrTransferFailed)
              ELSE Return(t2.w, NoReturn,
                          <<EvItemPurchased(modelId, sender, sale.price, seller,
                                            w1.platformFeeWallet,
                                            platformFeeAmount)>>)

Marketplace_buyCopy(w, sender, value, modelId) ==
    LET w0 == Receive(w, sender, value)
        sale == w0.copySales[modelId]
    IN  IF sale.price = 0 THEN Revert(w, ErrNotListedForCopies)
        ELSE IF sale.soldCopies >= sale.totalCopies THEN Revert(w, ErrSoldOut)
        ELSE IF value # sale.price THEN Revert(w, ErrIncorrectPayment)
        ELSE
          LET w1 == [w0 EXCEPT !.copySales[modelId].soldCopies = @ + 1]
              platformFeeAmount == (sale.price * w1.platformFeePercent) \div 100
              developerPayout == sale.price - platformFeeAmount
              seller == w1.models[modelId].owner
              t1 == safeTransfer(w1, w1.platformFeeWallet, platformFeeAmount)
              t2 == safeTransfer(t1.w, seller, developerPayout)
          IN  IF platformFeeAmount > sale.price THEN Revert(w, ErrArithmetic)
              ELSE IF seller = ZeroAddress THEN Revert(w, ErrInvalidModelId)
              ELSE IF ~t1.ok THEN Revert(w, ErrTransferFailed)
              ELSE IF ~t2.ok THEN Revert(w, ErrTransferFailed)
              ELSE Return(t2.w, NoReturn,
                          <<EvItemPurchased(modelId, sender, sale.price, seller,
                                            w1.platformFeeWallet,
                                            platformFeeAmount)>>)

\* withdrawPlatformFees open to every caller
Marketplace_withdrawPlatformFees_NoOwnerCheck(w, sender) ==
    LET bal == w.balance[MarketplaceAddress]
        t == safeTransfer(w, w.platformFeeWallet, bal)
    IN  IF bal = 0 THEN Revert(w, ErrNoFeesToWithdraw)
        ELSE IF ~t.ok THEN Revert(w, ErrTransferFailed)
        ELSE Return(t.w, NoReturn, <<EvPlatformFeesWithdrawn(sender, bal)>>)

\* withdrawPlatformFees without the zero-balance check
Marketplace_withdrawPlatformFees_NoZeroCheck(w, sender) ==
    IF ~onlyOwner(w, sender) THEN Revert(w, ErrOwnableUnauthorized)
    ELSE
      LET bal == w.balance[MarketplaceAddress]
          t == safeTransfer(w, w.platformFeeWallet, bal)
      IN  IF ~t.ok THEN Revert(w, ErrTransferFailed)
          ELSE Return(t.w, NoReturn, <<EvPlatformFeesWithdrawn(sender, bal)>>)

Marketplace_withdrawPlatformFees(w, sender) ==
    IF ~onlyOwner(w, sender) THEN Revert(w, ErrOwnableUnauthorized)
    ELSE
      LET bal == w.balance[MarketplaceAddress]
          t == safeTransfer(w, w.platformFeeWallet, bal)
      IN  IF bal = 0 THEN Revert(w, ErrNoFeesToWithdraw)
          ELSE IF ~t.ok THEN Revert(w, ErrTransferFailed)
          ELSE Return(t.w, NoReturn, <<EvPlatformFeesWithdrawn(sender, bal)>>)

Marketplace_getCopySaleDetails(w, modelId) ==
    LET sale == w.copySales[modelId]
    IN  IF sale.price = 0 THEN [ok |-> FALSE, err |-> ErrNotListedForCopies]
        ELSE [ok |-> TRUE, err |-> "", price |-> sale.price,
              totalCopies |-> sale.totalCopies, soldCopies |-> sale.soldCopies]

Marketplace_listItemForSubscription(w, sender, modelId, rate, durationSeconds) ==
    LET model == Registry_getModel(w, modelId)
        \* msg.sender of the nested call is the marketplace
        set == Registry_setSaleType(w, MarketplaceAddress, modelId, "Subscription")
    IN  IF model.owner # sender THEN Revert(w, ErrMarketNotModelOwner)
        ELSE IF ~set.ok THEN Revert(w, set.err)
        ELSE Return([set.w EXCEPT !.subscriptions[modelId] =
                         [rate |-> rate, durationSeconds |-> durationSeconds]],
                    NoReturn,
                    set.events \o
                    <<EvItemListedForSubscription(modelId, sender, rate,
                                                  durationSeconds)>>)

Marketplace_subscribe(w, sender, value, modelId) ==
    LET w0 == Receive(w, sender, value)
        sub == w0.subscriptions[modelId]
    IN  IF sub.rate = 0 \/ sub.durationSeconds = 0
        THEN Revert(w, ErrNotListedForCopies)
        ELSE IF value < sub.rate THEN Revert(w, ErrIncorrectPayment)
        ELSE
          LET currentExpiry == w0.userSubscriptions[modelId][sender]
              nowTime == w0.now
              newExpiry == IF currentExpiry > nowTime
                           THEN currentExpiry + sub.durationSeconds
                           ELSE nowTime + sub.durationSeconds
              w1 == [w0 EXCEPT !.userSubscriptions[modelId][sender] = newExpiry]
              model == Registry_getModel(w1, modelId)
              platformFee == (value * w1.platformFeePercent) \div 100
              payout == value - platformFee
              t1 == safeTransfer(w1, w1.platformFeeWallet, platformFee)
              t2 == safeTransfer(t1.w, model.owner, payout)
          IN  IF platformFee > value THEN Revert(w, ErrArithmetic)
              ELSE IF ~t1.ok THEN Revert(w, ErrTransferFailed)
              ELSE IF ~t2.ok THEN Revert(w, ErrTransferFailed)
              ELSE Return(t2.w, NoReturn,
                          <<EvSubscribed(modelId, sender, newExpiry)>>)

Marketplace_checkSubscription(w, modelId, user) ==
    w.userSubscriptions[modelId][user] >= w.now

Marketplace_setPlatformFeePercent(w, sender, newFeePercent) ==
    IF ~onlyOwner(w, sender) THEN Revert(w, ErrOwnableUnauthorized)
    ELSE IF newFeePercent > 100 THEN Revert(w, ErrInvalidFeePercent)
    ELSE Return([w EXCEPT !.platformFeePercent = newFeePercent], NoReturn, <<>>)

Marketplace_setPlatformFeeWallet(w, sender, newWallet) ==
    IF ~onlyOwner(w, sender) THEN Revert(w, ErrOwnableUnauthorized)
    ELSE IF newWallet = ZeroAddress THEN Revert(w, ErrZeroAddress)
    ELSE Return([w EXCEPT !.platformFeeWallet = newWallet], NoReturn, <<>>)

-----------------------------------------------------------------------------
(* FusionAI_MarketplaceUpgradeable, deployed over                          *)
(* FusionAI_ModelRegistryUpgradeable                                       *)

MarketplaceUp_initialize(w, registryAddress, initialOwner, feeWallet, feePercent) ==
    Return([w EXCEPT !.marketOwner = initialOwner,
                     !.platformFeeWallet = feeWallet,
                     !.platformFeePercent = feePercent],
           NoReturn, <<>>)

\* listItemForCopies without the already-listed guard
MarketplaceUp_listItemForCopies_Overwrites(w, sender, modelId, price, totalCopies) ==
    LET model == RegistryUp_getModel(w, modelId)
        set == RegistryUp_setSaleType(w, MarketplaceAddress, modelId, "Copies")
    IN  IF model.owner # sender THEN Revert(w, ErrMarketNotModelOwner)
        ELSE IF price = 0 THEN Revert(w, ErrInvalidPrice)
        ELSE IF totalCopies = 0 THEN Revert(w, ErrInvalidTotalCopies)
        ELSE IF ~set.ok THEN Revert(w, set.err)
        ELSE Return([set.w EXCEPT !.copySales[modelId] =
                         [price |-> price, totalCopies |-> totalCopies,
                          soldCopies |-> 0]],
                    NoReturn,
                    set.events \o
                    <<EvItemListedForCopies(modelId, sender, price, totalCopies)>>)

MarketplaceUp_listItemForCopies(w, sender, modelId, price, totalCopies) ==
    LET model == RegistryUp_getModel(w, modelId)
        \* msg.sender of the nested call is the marketplace
        set == RegistryUp_setSaleType(w, MarketplaceAddress, modelId, "Copies")
    IN  IF model.owner # sender THEN Revert(w, ErrMarketNotModelOwner)
        ELSE IF price = 0 THEN Revert(w, ErrInvalidPrice)
        ELSE IF totalCopies = 0 THEN Revert(w, ErrInvalidTotalCopies)
        ELSE IF w.copySales[modelId].price > 0
        THEN Revert(w, ErrAlreadyListedForCopies)
        ELSE IF ~set.ok THEN Revert(w, set.err)
        ELSE Return([set.w EXCEPT !.copySales[modelId] =
                         [price |-> price, totalCopies |-> totalCopies,
                          soldCopies |-> 0]],
                    NoReturn,
                    set.events \o
                    <<EvItemListedForCopies(modelId, sender, price, totalCopies)>>)

\* buyCopy that splits the listing price, not the payment
MarketplaceUp_buyCopy_SplitsPrice(w, sender, value, modelId) ==
    LET w0 == Receive(w, sender, value)
        sale == w0.copySales[modelId]
    IN  IF sale.price = 0 THEN Revert(w, ErrNotListedForCopies)
        ELSE IF value < sale.price THEN Revert(w, ErrIncorrectPayment)
        ELSE IF sale.soldCopies >= sale.totalCopies THEN Revert(w, ErrSoldOut)
        ELSE
          LET model == RegistryUp_getModel(w0, modelId)
              platformFee == (sale.price * w0.platformFeePercent) \div 100
              payout == sale.price - platformFee
              t1 == safeTransfer(w0, w0.platformFeeWallet, platformFee)
              t2 == safeTransfer(t1.w, model.owner, payout)
              w3 == [t2.w EXCEPT !.copySales[modelId].soldCopies = @ + 1]
          IN  IF platformFee > sale.price THEN Revert(w, ErrArithmetic)
              ELSE IF ~t1.ok THEN Revert(w, ErrTransferFailed)
              ELSE IF ~t2.ok THEN Revert(w, ErrTransferFailed)
              ELSE Return(w3, NoReturn,
                          <<EvItemPurchased(modelId, sender, sale.price,
                                            model.owner, w0.platformFeeWallet,
                                            platformFee)>>)

\* buyCopy that forgets to count the copy
MarketplaceUp_buyCopy_NoIncrement(w, sender, value, modelId) ==
    LET w0 == Receive(w, sender, value)
        sale == w0.copySales[modelId]
    IN  IF sale.price = 0 THEN Revert(w, ErrNotListedForCopies)
        ELSE IF value < sale.price THEN Revert(w, ErrIncorrectPayment)
        ELSE IF sale.soldCopies >= sale.totalCopies THEN Revert(w, ErrSoldOut)
        ELSE
          LET model == RegistryUp_getModel(w0, modelId)
              platformFee == (value * w0.platformFeePercent) \div 100
              payout == value - platformFee
              t1 == safeTransfer(w0, w0.platformFeeWallet, platformFee)
              t2 == safeTransfer(t1.w, model.owner, payout)
          IN  IF platformFee > value THEN Revert(w, ErrArithmetic)
              ELSE IF ~t1.ok THEN Revert(w, ErrTransferFailed)
              ELSE IF ~t2.ok THEN Revert(w, ErrTransferFailed)
              ELSE Return(t2.w, NoReturn,
                          <<EvItemPurchased(modelId, sender, sale.price,
                                            model.owner, w0.platformFeeWallet,
                                            platformFee)>>)

\* buyCopy that sells only while the registry says Copies
MarketplaceUp_buyCopy_ChecksSaleType(w, sender, value, modelId) ==
    LET w0 == Receive(w, sender, value)
        sale == w0.copySales[modelId]
    IN  IF sale.price = 0 THEN Revert(w, ErrNotListedForCopies)
        ELSE IF RegistryUp_getModel(w0, modelId).saleType # "Copies"
        THEN Revert(w, ErrNotListedForCopies)
        ELSE IF value < sale.price THEN Revert(w, ErrIncorrectPayment)
        ELSE IF sale.soldCopies >= sale.totalCopies THEN Revert(w, ErrSoldOut)
        ELSE
          LET model == RegistryUp_getModel(w0, modelId)
              platformFee == (value * w0.platformFeePercent) \div 100
              payout == value - platformFee
              t1 == safeTransfer(w0, w0.platformFeeWallet, platformFee)
              t2 == safeTransfer(t1.w, model.owner, payout)
              w3 == [t2.w EXCEPT !.copySales[modelId].soldCopies = @ + 1]
          IN  IF platformFee > value THEN Revert(w, ErrArithmetic)
              ELSE IF ~t1.ok THEN Revert(w, ErrTransferFailed)
              ELSE IF ~t2.ok THEN Revert(w, ErrTransferFailed)
              ELSE Return(w3, NoReturn,
                          <<EvItemPurchased(modelId, sender, sale.price,
                                            model.owner, w0.platformFeeWallet,
                                            platformFee)>>)

MarketplaceUp_buyCopy(w, sender, value, modelId) ==
    LET w0 == Receive(w, sender, value)
        sale == w0.copySales[modelId]
    IN  IF sale.price = 0 THEN Revert(w, ErrNotListedForCopies)
        ELSE IF value < sale.price THEN Revert(w, ErrIncorrectPayment)
        ELSE IF sale.soldCopies >= sale.totalCopies THEN Revert(w, ErrSoldOut)
        ELSE
          LET model == RegistryUp_getModel(w0, modelId)
              platformFee == (value * w0.platformFeePercent) \div 100
              payout == value - platformFee
              t1 == safeTransfer(w0, w0.platformFeeWallet, platformFee)
              t2 == safeTransfer(t1.w, model.owner, payout)
              w3 == [t2.w EXCEPT !.copySales[modelId].soldCopies = @ + 1]
          IN  IF platformFee > value THEN Revert(w, ErrArithmetic)
              ELSE IF ~t1.ok THEN Revert(w, ErrTransferFailed)
              ELSE IF ~t2.ok THEN Revert(w, ErrTransferFailed)
              ELSE Return(w3, NoReturn,
                          <<EvItemPurchased(modelId, sender, sale.price,
                                            model.owner, w0.platformFeeWallet,
                                            platformFee)>>)

MarketplaceUp_getCopySaleDetails(w, modelId) ==
    LET sale == w.copySales[modelId]
    IN  IF sale.price = 0 THEN [ok |-> FALSE, err |-> ErrNotListedForCopies]
        ELSE [ok |-> TRUE, err |-> "", price |-> sale.price,
              totalCopies |-> sale.totalCopies, soldCopies |-> sale.soldCopies]

\* listItemForSubscription open to every caller
MarketplaceUp_listItemForSubscription_NoOwnerCheck(w, sender, modelId, rate, durationSeconds) ==
    LET set == RegistryUp_setSaleType(w, MarketplaceAddress, modelId, "Subscription")
    IN  IF ~set.ok THEN Revert(w, set.err)
        ELSE Return([set.w EXCEPT !.subscriptions[modelId] =
                         [rate |-> rate, durationSeconds |-> durationSeconds]],
                    NoReturn,
                    set.events \o
                    <<EvItemListedForSubscription(modelId, sender, rate,
                                                  durationSeconds)>>)

MarketplaceUp_listItemForSubscription(w, sender, modelId, rate, durationSeconds) ==
    LET model == RegistryUp_getModel(w, modelId)
        \* msg.sender of the nested call is the marketplace
        set == RegistryUp_setSaleType(w, MarketplaceAddress, modelId, "Subscription")
    IN  IF model.owner # sender THEN Revert(w, ErrMarketNotModelOwner)
        ELSE IF ~set.ok THEN Revert(w, set.err)
        ELSE Return([set.w EXCEPT !.subscriptions[modelId] =
                         [rate |-> rate, durationSeconds |-> durationSeconds]],
                    NoReturn,
                    set.events \o
                    <<EvItemListedForSubscription(modelId, sender, rate,
                                                  durationSeconds)>>)

\* subscribe that starts a new period at the current time, whatever is left
\* of the running one
MarketplaceUp_subscribe_RestartsPeriod(w, sender, value, modelId) ==
    LET w0 == Receive(w, sender, value)
        sub == w0.subscriptions[modelId]
    IN  IF sub.rate = 0 \/ sub.durationSeconds = 0
        THEN Revert(w, ErrNotListedForCopies)
        ELSE IF value < sub.rate THEN Revert(w, ErrIncorrectPayment)
        ELSE
          LET newExpiry == w0.now + sub.durationSeconds
              w1 == [w0 EXCEPT !.userSubscriptions[modelId][sender] = newExpiry]
              model == RegistryUp_getModel(w1, modelId)
              platformFee == (value * w1.platformFeePercent) \div 100
              payout == value - platformFee
              t1 == safeTransfer(w1, w1.platformFeeWallet, platformFee)
              t2 == safeTransfer(t1.w, model.owner, payout)
          IN  IF platformFee > value THEN Revert(w, ErrArithmetic)
              ELSE IF ~t1.ok THEN Revert(w, ErrTransferFailed)
              ELSE IF ~t2.ok THEN Revert(w, ErrTransferFailed)
              ELSE Return(t2.w, NoReturn,
                          <<EvSubscribed(modelId, sender, newExpiry)>>)

\* subscribe that always extends the stored expiry, expired or not
MarketplaceUp_subscribe_AlwaysStacks(w, sender, value, modelId) ==
    LET w0 == Receive(w, sender, value)
        sub == w0.subscriptions[modelId]
    IN  IF sub.rate = 0 \/ sub.durationSeconds = 0
        THEN Revert(w, ErrNotListedForCopies)
        ELSE IF value < sub.rate THEN Revert(w, ErrIncorrectPayment)
        ELSE
          LET currentExpiry == w0.userSubscriptions[modelId][sender]
              newExpiry == currentExpiry + sub.durationSeconds
              w1 == [w0 EXCEPT !.userSubscriptions[modelId][sender] = newExpiry]
              model == RegistryUp_getModel(w1, modelId)
              platformFee == (value * w1.platformFeePercent) \div 100
              payout == value - platformFee
              t1 == safeTransfer(w1, w1.platformFeeWallet, platformFee)
              t2 == safeTransfer(t1.w, model.owner, payout)
          IN  IF platformFee > value THEN Revert(w, ErrArithmetic)
              ELSE IF ~t1.ok THEN Revert(w, ErrTransferFailed)
              ELSE IF ~t2.ok THEN Revert(w, ErrTransferFailed)
              ELSE Return(t2.w, NoReturn,
                          <<EvSubscribed(modelId, sender, newExpiry)>>)

MarketplaceUp_subscribe(w, sender, value, modelId) ==
    LET w0 == Receive(w, sender, value)
        sub == w0.subscriptions[modelId]
    IN  IF sub.rate = 0 \/ sub.durationSeconds = 0
        THEN Revert(w, ErrNotListedForCopies)
        ELSE IF value < sub.rate THEN Revert(w, ErrIncorrectPayment)
        ELSE
          LET currentExpiry == w0.userSubscriptions[modelId][sender]
              nowTime == w0.now
              newExpiry == IF currentExpiry > nowTime
                           THEN currentExpiry + sub.durationSeconds
                           ELSE nowTime + sub.durationSeconds
              w1 == [w0 EXCEPT !.userSubscriptions[modelId][sender] = newExpiry]
              model == RegistryUp_getModel(w1, modelId)
              platformFee == (value * w1.platformFeePercent) \div 100
              payout == value - platformFee
              t1 == safeTransfer(w1, w1.platformFeeWallet, platformFee)
              t2 == safeTransfer(t1.w, model.owner, payout)
          IN  IF platformFee > value THEN Revert(w, ErrArithmetic)
              ELSE IF ~t1.ok THEN Revert(w, ErrTransferFailed)
              ELSE IF ~t2.ok THEN Revert(w, ErrTransferFailed)
              ELSE Return(t2.w, NoReturn,
                          <<EvSubscribed(modelId, sender, newExpiry)>>)

\* checkSubscription that is false at the expiry itself
MarketplaceUp_checkSubscription_Strict(w, modelId, user) ==
    w.userSubscriptions[modelId][user] > w.now

MarketplaceUp_checkSubscription(w, modelId, user) ==
    w.userSubscriptions[modelId][user] >= w.now

MarketplaceUp_setPlatformFeePercent(w, sender, newFeePercent) ==
    IF ~onlyOwner(w, sender) THEN Revert(w, ErrOwnableUnauthorized)
    ELSE IF newFeePercent > 100 THEN Revert(w, ErrInvalidFeePercent)
    ELSE Return([w EXCEPT !.platformFeePercent = newFeePercent], NoReturn, <<>>)

MarketplaceUp_setPlatformFeeWallet(w, sender, newWallet) ==
    IF ~onlyOwner(w, sender) THEN Revert(w, ErrOwnableUnauthorized)
    ELSE IF newWallet = ZeroAddress THEN Revert(w, ErrZeroAddress)
    ELSE Return([w EXCEPT !.platformFeeWallet = newWallet], NoReturn, <<>>)

-----------------------------------------------------------------------------
(* Transactions *)

Deployments == {"plain", "upgradeable"}

\* each call goes to the contract that is deployed
CallRegisterModel(w, sender, hash, saleType) ==
    IF deployment = "upgradeable"
    THEN RegistryUp_registerModel(w, sender, hash, saleType)
    ELSE Registry_registerModel(w, sender, hash, saleType)

CallUpdateModelMetadata(w, sender, modelId, newHash) ==
    IF deployment = "upgradeable"
    THEN RegistryUp_updateModelMetadata(w, sender, modelId, newHash)
    ELSE Registry_updateModelMetadata(w, sender, modelId, newHash)

CallSetSaleType(w, sender, modelId, saleType) ==
    IF deployment = "upgradeable"
    THEN RegistryUp_setSaleType(w, sender, modelId, saleType)
    ELSE Registry_setSaleType(w, sender, modelId, saleType)

CallListItemForCopies(w, sender, modelId, price, totalCopies) ==
    IF deployment = "upgradeable"
    THEN MarketplaceUp_listItemForCopies(w, sender, modelId, price, totalCopies)
    ELSE Marketplace_listItemForCopies(w, sender, modelId, price, totalCopies)

CallBuyCopy(w, sender, value, modelId) ==
    IF deployment = "upgradeable"
    THEN MarketplaceUp_buyCopy(w, sender, value, modelId)
    ELSE Marketplace_buyCopy(w, sender, value, modelId)

CallListItemForSubscription(w, sender, modelId, rate, durationSeconds) ==
    IF deployment = "upgradeable"
    THEN MarketplaceUp_listItemForSubscription(w, sender, modelId, rate,
                                               durationSeconds)
    ELSE Marketplace_listItemForSubscription(w, sender, modelId, rate,
                                             durationSeconds)

CallSubscribe(w, sender, value, modelId) ==
    IF deployment = "upgradeable"
    THEN MarketplaceUp_subscribe(w, sender, value, modelId)
    ELSE Marketplace_subscribe(w, sender, value, modelId)

CallSetPlatformFeePercent(w, sender, newFeePercent) ==
    IF deployment = "upgradeable"
    THEN MarketplaceUp_setPlatformFeePercent(w, sender, newFeePercent)
    ELSE Marketplace_setPlatformFeePercent(w, sender, newFeePercent)

CallSetPlatformFeeWallet(w, sender, newWallet) ==
    IF deployment = "upgradeable"
    THEN MarketplaceUp_setPlatformFeeWallet(w, sender, newWallet)
    ELSE Marketplace_setPlatformFeeWallet(w, sender, newWallet)

\* no call yet, or a block without one
CallCheckSubscription(w, modelId, user) ==
    IF deployment = "upgradeable"
    THEN MarketplaceUp_checkSubscription(w, modelId, user)
    ELSE Marketplace_checkSubscription(w, modelId, user)

-----------------------------------------------------------------------------
(* buyCopy and subscribe paying a contract whose receive function calls    *)
(* back into the marketplace.  _safeTransfer hands control to the recipient *)
(* with to.call{value: amount}(""); while it runs the guard of the         *)
(* nonReentrant modifier is in its entered state.                          *)

ErrReentrantCall == "ReentrancyGuardReentrantCall"

\* functions a recipient calls from its receive function
Hooks == {"buyCopy", "subscribe"}
\* recipients whose receive function calls back
ReentrantRecipients == {"dev", Treasury}

\* a marketplace without the guard
nonReentrant_Absent(w, entered, r) == r

\* the nonReentrant modifier: a call made while the guard is entered
\* reverts, any other call runs the function, whose outcome is r
nonReentrant(w, entered, r) ==
    IF entered THEN Revert(w, ErrReentrantCall) ELSE r

\* the receive function of the recipient: it calls hook for modelId once,
\* paying the listed amount out of what it holds, and catches a failure
Reenter(w, recipient, hook, modelId) ==
    LET value == IF hook = "buyCopy" THEN w.copySales[modelId].price
                 ELSE w.subscriptions[modelId].rate
        nested == IF hook = "buyCopy"
                  THEN nonReentrant(w, TRUE,
                                    CallBuyCopy(w, recipient, value, modelId))
                  ELSE nonReentrant(w, TRUE,
                                    CallSubscribe(w, recipient, value, modelId))
    IN  IF w.balance[recipient] < value THEN w
        ELSE IF nested.ok THEN nested.w
        ELSE w

\* _safeTransfer to an address that may be the calling-back recipient
safeTransferReentered(w, to, amount, recipient, hook, modelId) ==
    LET t == safeTransfer(w, to, amount)
    IN  IF t.ok /\ amount > 0 /\ to = recipient
        THEN [ok |-> TRUE, w |-> Reenter(t.w, recipient, hook, modelId)]
        ELSE t

Marketplace_buyCopy_Reentered(w, sender, value, modelId, recipient, hook) ==
    LET w0 == Receive(w, sender, value)
        sale == w0.copySales[modelId]
    IN  IF sale.price = 0 THEN Revert(w, ErrNotListedForCopies)
        ELSE IF sale.soldCopies >= sale.totalCopies THEN Revert(w, ErrSoldOut)
        ELSE IF value # sale.price THEN Revert(w, ErrIncorrectPayment)
        ELSE
          LET w1 == [w0 EXCEPT !.copySales[modelId].soldCopies = @ + 1]
              platformFeeAmount == (sale.price * w1.platformFeePercent) \div 100
              developerPayout == sale.price - platformFeeAmount
              seller == w1.models[modelId].owner
              t1 == safeTransferReentered(w1, w1.platformFeeWallet,
                                          platformFeeAmount, recipient, hook,
                                          modelId)
              t2 == safeTransferReentered(t1.w, seller, developerPayout,
                                          recipient, hook, modelId)
          IN  IF platformFeeAmount > sale.price THEN Revert(w, ErrArithmetic)
              ELSE IF seller = ZeroAddress THEN Revert(w, ErrInvalidModelId)
              ELSE IF ~t1.ok THEN Revert(w, ErrTransferFailed)
              ELSE IF ~t2.ok THEN Revert(w, ErrTransferFailed)
              ELSE Return(t2.w, NoReturn,
                          <<EvItemPurchased(modelId, sender, sale.price, seller,
                                            w1.platformFeeWallet,
                                            platformFeeAmount)>>)

Marketplace_subscribe_Reentered(w, sender, value, modelId, recipient, hook) ==
    LET w0 == Receive(w, sender, value)
        sub == w0.subscriptions[modelId]
    IN  IF sub.rate = 0 \/ sub.durationSeconds = 0
        THEN Revert(w, ErrNotListedForCopies)
        ELSE IF value < sub.rate THEN Revert(w, ErrIncorrectPayment)
        ELSE
          LET currentExpiry == w0.userSubscriptions[modelId][sender]
              nowTime == w0.now
              newExpiry == IF currentExpiry > nowTime
                           THEN currentExpiry + sub.durationSeconds
                           ELSE nowTime + sub.durationSeconds
              w1 == [w0 EXCEPT !.userSubscriptions[modelId][sender] = newExpiry]
              model == Registry_getModel(w1, modelId)
              platformFee == (value * w1.platformFeePercent) \div 100
              payout == value - platformFee
              t1 == safeTransferReentered(w1, w1.platformFeeWallet, platformFee,
                                          recipient, hook, modelId)
              t2 == safeTransferReentered(t1.w, model.owner, payout, recipient,
                                          hook, modelId)
          IN  IF platformFee > value THEN Revert(w, ErrArithmetic)
              ELSE IF ~t1.ok THEN Revert(w, ErrTransferFailed)
              ELSE IF ~t2.ok THEN Revert(w, ErrTransferFailed)
              ELSE Return(t2.w, NoReturn,
                          <<EvSubscribed(modelId, sender, newExpiry)>>)

MarketplaceUp_buyCopy_Reentered(w, sender, value, modelId, recipient, hook) ==
    LET w0 == Receive(w, sender, value)
        sale == w0.copySales[modelId]
    IN  IF sale.price = 0 THEN Revert(w, ErrNotListedForCopies)
        ELSE IF value < sale.price THEN Revert(w, ErrIncorrectPayment)
        ELSE IF sale.soldCopies >= sale.totalCopies THEN Revert(w, ErrSoldOut)
        ELSE
          LET model == RegistryUp_getModel(w0, modelId)
              platformFee == (value * w0.platformFeePercent) \div 100
              payout == value - platformFee
              t1 == safeTransferReentered(w0, w0.platformFeeWallet, platformFee,
                                          recipient, hook, modelId)
              t2 == safeTransferReentered(t1.w, model.owner, payout, recipient,
                                          hook, modelId)
              w3 == [t2.w EXCEPT !.copySales[modelId].soldCopies = @ + 1]
          IN  IF platformFee > value THEN Revert(w, ErrArithmetic)
              ELSE IF ~t1.ok THEN Revert(w, ErrTransferFailed)
              ELSE IF ~t2.ok THEN Revert(w, ErrTransferFailed)
              ELSE Return(w3, NoReturn,
                          <<EvItemPurchased(modelId, sender, sale.price,
                                            model.owner, w0.platformFeeWallet,
                                            platformFee)>>)

MarketplaceUp_subscribe_Reentered(w, sender, value, modelId, recipient, hook) ==
    LET w0 == Receive(w, sender, value)
        sub == w0.subscriptions[modelId]
    IN  IF sub.rate = 0 \/ sub.durationSeconds = 0
        THEN Revert(w, ErrNotListedForCopies)
        ELSE IF value < sub.rate THEN Revert(w, ErrIncorrectPayment)
        ELSE
          LET currentExpiry == w0.userSubscriptions[modelId][sender]
              nowTime == w0.now
              newExpiry == IF currentExpiry > nowTime
                           THEN currentExpiry + sub.durationSeconds
                           ELSE nowTime + sub.durationSeconds
              w1 == [w0 EXCEPT !.userSubscriptions[modelId][sender] = newExpiry]
              model == RegistryUp_getModel(w1, modelId)
              platformFee == (value * w1.platformFeePercent) \div 100
              payout == value - platformFee
              t1 == safeTransferReentered(w1, w1.platformFeeWallet, platformFee,
                                          recipient, hook, modelId)
              t2 == safeTransferReentered(t1.w, model.owner, payout, recipient,
                                          hook, modelId)
          IN  IF platformFee > value THEN Revert(w, ErrArithmetic)
              ELSE IF ~t1.ok THEN Revert(w, ErrTransferFailed)
              ELSE IF ~t2.ok THEN Revert(w, ErrTransferFailed)
              ELSE Return(t2.w, NoReturn,
                          <<EvSubscribed(modelId, sender, newExpiry)>>)

\* the call from outside finds the guard not entered
CallBuyCopyReentered(w, sender, value, modelId, recipient, hook) ==
    nonReentrant(w, FALSE,
        IF deployment = "upgradeable"
        THEN MarketplaceUp_buyCopy_Reentered(w, sender, value, modelId,
                                             recipient, hook)
        ELSE Marketplace_buyCopy_Reentered(w, sender, value, modelId,
                                           recipient, hook))

CallSubscribeReentered(w, sender, value, modelId, recipient, hook) ==
    nonReentrant(w, FALSE,
        IF deployment = "upgradeable"
        THEN MarketplaceUp_subscribe_Reentered(w, sender, value, modelId,
                                               recipient, hook)
        ELSE Marketplace_subscribe_Reentered(w, sender, value, modelId,
                                             recipient, hook))

NoCall == [op |-> "", ok |-> TRUE, err |-> "", ret |-> NoReturn, emitted |-> 0]

\* the transaction's outcome becomes the state; `last` records the call
Commit(op, r) ==
    /\ models' = r.w.models
    /\ ipfsHashExists' = r.w.ipfsHashExists
    /\ modelCounter' = r.w.modelCounter
    /\ operators' = r.w.operators
    /\ registryOwner' = r.w.registryOwner
    /\ copySales' = r.w.copySales
    /\ subscriptions' = r.w.subscriptions
    /\ userSubscriptions' = r.w.userSubscriptions
    /\ platformFeeWallet' = r.w.platformFeeWallet
    /\ platformFeePercent' = r.w.platformFeePercent
    /\ marketOwner' = r.w.marketOwner
    /\ balance' = r.w.balance
    /\ now' = r.w.now
    /\ last' = [op |-> op, ok |-> r.ok, err |-> r.err, ret |-> r.ret,
                emitted |-> Len(r.events)]
    /\ UNCHANGED deployment

\* a later block: the timestamp grows
Tick ==
    /\ now < MaxTime
    /\ now' = now + 1
    /\ last' = NoCall
    /\ UNCHANGED <<deployment, registryVars, marketVars, balance>>

(* transactions of the registry specification *)

TxRegisterModel ==
    \E sender \in Registrants, hash \in Hashes, saleType \in SaleTypeInputs :
        /\ modelCounter < MaxModels
        /\ Commit("registerModel", CallRegisterModel(World, sender, hash, saleType))

TxUpdateModelMetadata ==
    \E sender \in RegistryCallers, modelId \in ModelIds, hash \in Hashes :
        Commit("updateModelMetadata",
               CallUpdateModelMetadata(World, sender, modelId, hash))

TxSetSaleType ==
    \E sender \in RegistryCallers, modelId \in ModelIds,
       saleType \in SaleTypeInputs :
        Commit("setSaleType", CallSetSaleType(World, sender, modelId, saleType))

TxSetOperator ==
    \E sender \in RegistryCallers, operator \in OperatorCandidates,
       approved \in BOOLEAN :
        /\ deployment = "upgradeable"
        /\ Commit("setOperator",
                  RegistryUp_setOperator(World, sender, operator, approved))

(* transactions of the marketplace specification *)

TxSellerRegisterModel ==
    \E sender \in Sellers, hash \in MarketHashes :
        /\ modelCounter < MaxModels
        /\ Commit("registerModel",
                  CallRegisterModel(World, sender, hash, "NotForSale"))

TxApproveMarketplace ==
    \E sender \in AdminCallers, approved \in BOOLEAN :
        /\ deployment = "upgradeable"
        /\ Commit("setOperator",
                  RegistryUp_setOperator(World, sender, MarketplaceAddress,
                                         approved))

TxListItemForCopies ==
    \E sender \in ListingCallers, modelId \in MarketIds, price \in PriceInputs,
       totalCopies \in 0 .. MaxCopies :
        Commit("listItemForCopies",
               CallListItemForCopies(World, sender, modelId, price, totalCopies))

TxBuyCopy ==
    \E sender \in Buyers, value \in PaymentInputs, modelId \in MarketIds :
        /\ balance[sender] >= value
        /\ Commit("buyCopy", CallBuyCopy(World, sender, value, modelId))

TxBuyCopyReentered ==
    \E sender \in Buyers, value \in PaymentInputs, modelId \in MarketIds,
       recipient \in ReentrantRecipients, hook \in Hooks :
        /\ balance[sender] >= value
        /\ Commit("buyCopy",
                  CallBuyCopyReentered(World, sender, value, modelId, recipient,
                                       hook))

TxSubscribeReentered ==
    \E sender \in Buyers, value \in PaymentInputs, modelId \in MarketIds,
       recipient \in ReentrantRecipients, hook \in Hooks :
        /\ balance[sender] >= value
        /\ Commit("subscribe",
                  CallSubscribeReentered(World, sender, value, modelId,
                                         recipient, hook))

TxListItemForSubscription ==
    \E sender \in ListingCallers, modelId \in MarketIds, rate \in RateInputs,
       durationSeconds \in DurationInputs :
        Commit("listItemForSubscription",
               CallListItemForSubscription(World, sender, modelId, rate,
                                           durationSeconds))

TxSubscribe ==
    \E sender \in Buyers, value \in PaymentInputs, modelId \in MarketIds :
        /\ balance[sender] >= value
        /\ Commit("subscribe", CallSubscribe(World, sender, value, modelId))

TxSetPlatformFeePercent ==
    \E sender \in AdminCallers, newFeePercent \in FeePercentInputs :
        Commit("setPlatformFeePercent",
               CallSetPlatformFeePercent(World, sender, newFeePercent))

TxSetPlatformFeeWallet ==
    \E sender \in AdminCallers, newWallet \in FeeWalletInputs :
        Commit("setPlatformFeeWallet",
               CallSetPlatformFeeWallet(World, sender, newWallet))

TxWithdrawPlatformFees ==
    \E sender \in AdminCallers :
        /\ deployment = "plain"
        /\ Commit("withdrawPlatformFees",
                  Marketplace_withdrawPlatformFees(World, sender))

\* Ether credited to the marketplace without a call. Neither marketplace has
\* a receive or a payable fallback function and every payable function pays
\* out all it receives, so this is the only way address(this).balance, which
\* withdrawPlatformFees sweeps, is ever above zero.
TxForceEther ==
    \E from \in Buyers :
        /\ balance[from] >= ForcedEther
        /\ balance[MarketplaceAddress] = 0
        /\ balance' = Move(World, from, MarketplaceAddress, ForcedEther).balance
        /\ last' = NoCall
        /\ UNCHANGED <<deployment, registryVars, marketVars, now>>

-----------------------------------------------------------------------------
(* Specifications *)

\* storage before any contract is constructed
Undeployed ==
    [models |-> [i \in ModelIds |-> DefaultModel],
     ipfsHashExists |-> [h \in Hashes |-> FALSE],
     modelCounter |-> 0,
     operators |-> [a \in Addresses |-> FALSE],
     registryOwner |-> ZeroAddress,
     copySales |-> [i \in ModelIds |-> DefaultCopySale],
     subscriptions |-> [i \in ModelIds |-> DefaultSubscription],
     userSubscriptions |-> [i \in ModelIds |-> [a \in Addresses |-> 0]],
     platformFeeWallet |-> ZeroAddress,
     platformFeePercent |-> 0,
     marketOwner |-> ZeroAddress,
     balance |-> InitialBalance,
     now |-> 1]

\* FusionAI_ModelRegistry has no constructor;
\* FusionAI_ModelRegistryUpgradeable.initialize(initialOwner) sets the owner
DeployRegistry(w, d, initialOwner) ==
    IF d = "upgradeable" THEN [w EXCEPT !.registryOwner = initialOwner] ELSE w

DeployMarketplace(w, d, feeWallet, feePercent) ==
    IF d = "upgradeable"
    THEN MarketplaceUp_initialize(w, "registry", Admin, feeWallet, feePercent)
    ELSE Marketplace_constructor(w, "registry", Admin, feeWallet, feePercent)

StartIn(w) ==
    /\ models = w.models
    /\ ipfsHashExists = w.ipfsHashExists
    /\ modelCounter = w.modelCounter
    /\ operators = w.operators
    /\ registryOwner = w.registryOwner
    /\ copySales = w.copySales
    /\ subscriptions = w.subscriptions
    /\ userSubscriptions = w.userSubscriptions
    /\ platformFeeWallet = w.platformFeeWallet
    /\ platformFeePercent = w.platformFeePercent
    /\ marketOwner = w.marketOwner
    /\ balance = w.balance
    /\ now = w.now
    /\ last = NoCall

\* the registry alone, of either generation, right after deployment
InitRegistry ==
    /\ deployment \in Deployments
    /\ StartIn(DeployRegistry(Undeployed, deployment, Admin))

\* registry and marketplace of either generation, right after a deployment
\* whose arguments the constructor or initializer accepts
InitMarketplace ==
    /\ deployment \in Deployments
    /\ \E feeWallet \in FeeWalletInputs, feePercent \in FeePercentInputs :
         LET r == DeployMarketplace(DeployRegistry(Undeployed, deployment, Admin),
                                    deployment, feeWallet, feePercent)
         IN  r.ok /\ StartIn(r.w)

NextRegistry ==
    \/ TxRegisterModel
    \/ TxUpdateModelMetadata
    \/ TxSetSaleType
    \/ TxSetOperator

\* The fee wallet and fee percent are drawn at deployment from every value
\* the setters can store; the administrative transactions are steps of
\* NextAdministration and Tick is a step of NextSubscription.
NextMarketplace ==
    \/ TxSellerRegisterModel
    \/ TxApproveMarketplace
    \/ TxListItemForCopies
    \/ TxBuyCopy
    \/ TxListItemForSubscription
    \/ TxSubscribe

\* subscriptions over time: listing, subscribing and the passing of blocks
NextSubscription ==
    \/ TxSellerRegisterModel
    \/ TxApproveMarketplace
    \/ TxListItemForSubscription
    \/ TxSubscribe
    \/ Tick

\* copy sales under a changing fee configuration
NextAdministration ==
    \/ TxSellerRegisterModel
    \/ TxApproveMarketplace
    \/ TxListItemForCopies
    \/ TxBuyCopy
    \/ TxSetPlatformFeePercent
    \/ TxSetPlatformFeeWallet
    \/ TxWithdrawPlatformFees

\* the administrator's functions over a marketplace that holds ether
NextTreasury ==
    \/ TxApproveMarketplace
    \/ TxSetPlatformFeePercent
    \/ TxSetPlatformFeeWallet
    \/ TxWithdrawPlatformFees
    \/ TxForceEther

\* sales whose recipients call back into the marketplace
NextReentrancy ==
    \/ TxSellerRegisterModel
    \/ TxApproveMarketplace
    \/ TxListItemForCopies
    \/ TxListItemForSubscription
    \/ TxBuyCopyReentered
    \/ TxSubscribeReentered

\* copy sales and withdrawals of a marketplace that may be sent ether
NextFunds ==
    \/ TxSellerRegisterModel
    \/ TxApproveMarketplace
    \/ TxListItemForCopies
    \/ TxBuyCopy
    \/ TxWithdrawPlatformFees
    \/ TxForceEther

SpecRegistry == InitRegistry /\ [][NextRegistry]_vars

SpecMarketplace == InitMarketplace /\ [][NextMarketplace]_vars

SpecSubscription == InitMarketplace /\ [][NextSubscription]_vars

SpecAdministration == InitMarketplace /\ [][NextAdministration]_vars

SpecTreasury == InitMarketplace /\ [][NextTreasury]_vars

SpecReentrancy == InitMarketplace /\ [][NextReentrancy]_vars

SpecFunds == InitMarketplace /\ [][NextFunds]_vars

-----------------------------------------------------------------------------
(* Properties of the registry, checked under SpecRegistry *)

\* ids of the registered models
Registered == 0 .. (modelCounter - 1)

\* count(): modelCount() and getModelIdCounter() of the deployed registry
Count(w) ==
    IF deployment = "upgradeable" THEN RegistryUp_modelCount(w)
    ELSE Registry_modelCount(w)

GetModel(w, modelId) ==
    IF deployment = "upgradeable" THEN RegistryUp_getModel(w, modelId)
    ELSE Registry_getModel(w, modelId)

\* the caller is the model's owner or, in the upgradeable registry, an
\* approved operator
Authorized(sender, modelId) ==
    \/ models[modelId].owner = sender
    \/ deployment = "upgradeable" /\ operators[sender]

\* C1: in every reachable state of the registry no two distinct registered
\* models have the same content hash.
C1_UniqueContentHashes ==
    \A i \in Registered, j \in Registered :
        i # j => models[i].ipfsMetadataHash # models[j].ipfsMetadataHash

C8_DuplicateRegistrationFails ==
    \A sender \in RegistryCallers, hash \in Hashes, saleType \in SaleType :
        (\E i \in Registered : models[i].ipfsMetadataHash = hash) =>
            LET r == CallRegisterModel(World, sender, hash, saleType)
            IN  ~r.ok /\ r.err = ErrHashRegistered /\ r.w = World

\* C9: registerModel and updateModelMetadata with the empty hash fail with
\* the empty-content error and change nothing, and no registered model has
\* the empty hash.
C9_EmptyHashRejected ==
    /\ \A sender \in RegistryCallers, saleType \in SaleType :
          LET r == CallRegisterModel(World, sender, "", saleType)
          IN  ~r.ok /\ r.err = ErrHashEmpty /\ r.w = World
    /\ \A sender \in RegistryCallers, modelId \in Registered :
          LET r == CallUpdateModelMetadata(World, sender, modelId, "")
          IN  /\ ~r.ok /\ r.w = World
              /\ Authorized(sender, modelId) => r.err = ErrNewHashEmpty
    /\ \A i \in Registered : models[i].ipfsMetadataHash # ""

\* C10: updateModelMetadata(id, h) by an authorized caller with h the
\* model's current hash succeeds, emits no event and changes nothing.
C10_SameHashUpdateIsNoOp ==
    \A sender \in RegistryCallers, modelId \in Registered :
        Authorized(sender, modelId) =>
            LET r == CallUpdateModelMetadata(World, sender, modelId,
                                             models[modelId].ipfsMetadataHash)
            IN  r.ok /\ r.events = <<>> /\ r.w = World

\* the authorization error of the deployed registry
ErrUnauthorized ==
    IF deployment = "upgradeable" THEN ErrNotOwnerOrOperator
    ELSE ErrNotModelOwner

\* C11: updateModelMetadata(id, h) with h the current hash of a different
\* registered model fails for every caller, with the duplicate error when
\* the caller is authorized, and changes nothing: both hashes and the hash
\* index, the caller's old hash included, stay as they were.
C11_UpdateToTakenHashFails ==
    \A sender \in RegistryCallers, modelId \in Registered, other \in Registered :
        other # modelId =>
            LET h == models[other].ipfsMetadataHash
                r == CallUpdateModelMetadata(World, sender, modelId, h)
            IN  /\ ~r.ok /\ r.w = World
                /\ Authorized(sender, modelId) => r.err = ErrNewHashRegistered
                /\ r.w.ipfsHashExists[models[modelId].ipfsMetadataHash]

\* C12: a successful updateModelMetadata(id, new) with new different from
\* the current hash old stores new, marks new registered and old free and
\* changes nothing else; afterwards old can be registered by anyone or taken
\* back by the same model, and registering new fails as a duplicate.
C12_UpdateSwapsHashClaim ==
    \A sender \in RegistryCallers, modelId \in Registered, new \in Hashes :
        LET old == models[modelId].ipfsMetadataHash
            r == CallUpdateModelMetadata(World, sender, modelId, new)
        IN  (r.ok /\ new # old) =>
              /\ r.w.models[modelId].ipfsMetadataHash = new
              /\ r.w.ipfsHashExists[new]
              /\ ~r.w.ipfsHashExists[old]
              /\ r.events = <<EvModelMetadataUpdated(modelId, new)>>
              /\ r.w = [World EXCEPT
                          !.models[modelId].ipfsMetadataHash = new,
                          !.ipfsHashExists[old] = FALSE,
                          !.ipfsHashExists[new] = TRUE]
              /\ \A registrant \in Registrants, saleType \in SaleType :
                    /\ LET again == CallRegisterModel(r.w, registrant, old, saleType)
                       IN  again.ok /\ again.w.models[again.ret].ipfsMetadataHash = old
                    /\ LET dup == CallRegisterModel(r.w, registrant, new, saleType)
                       IN  ~dup.ok /\ dup.err = ErrHashRegistered /\ dup.w = r.w
              /\ LET back == CallUpdateModelMetadata(r.w, sender, modelId, old)
                 IN  /\ back.ok
                     /\ back.w.models[modelId].ipfsMetadataHash = old
                     /\ back.w.ipfsHashExists[old]
                     /\ ~back.w.ipfsHashExists[new]

\* the only model has been moved from another hash to QmB: QmB is registered
\* and neither QmA nor the empty hash is
C12_Witness ==
    /\ last.op = "updateModelMetadata" /\ last.ok /\ last.emitted = 1
    /\ modelCounter = 1
    /\ models[0].ipfsMetadataHash = "QmB"
    /\ models[1].ipfsMetadataHash = ""
    /\ ipfsHashExists["QmB"] /\ ~ipfsHashExists["QmA"] /\ ~ipfsHashExists[""]

\* C13: setSaleType and updateModelMetadata by a caller that is neither the
\* model's owner nor an approved operator fail with the authorization error
\* and change nothing.
C13_UnauthorizedCallsFail ==
    \A sender \in RegistryCallers, modelId \in ModelIds :
        ~Authorized(sender, modelId) =>
            /\ \A saleType \in SaleType :
                  LET r == CallSetSaleType(World, sender, modelId, saleType)
                  IN  ~r.ok /\ r.err = ErrUnauthorized /\ r.w = World
            /\ \A hash \in Hashes :
                  LET r == CallUpdateModelMetadata(World, sender, modelId, hash)
                  IN  ~r.ok /\ r.err = ErrUnauthorized /\ r.w = World

\* two models are registered, nobody is an operator and a setSaleType was
\* refused with the upgradeable registry's authorization error
C13_Witness ==
    /\ last.op = "setSaleType" /\ ~last.ok /\ last.err = ErrNotOwnerOrOperator
    /\ modelCounter = 2
    /\ \A a \in Addresses : ~operators[a]

\* C14: setSaleType(id, t) by an authorized caller with t the model's
\* current sale type succeeds, emits no event and changes nothing.
C14_SameSaleTypeIsNoOp ==
    \A sender \in RegistryCallers, modelId \in Registered :
        Authorized(sender, modelId) =>
            LET r == CallSetSaleType(World, sender, modelId,
                                     models[modelId].saleType)
            IN  r.ok /\ r.events = <<>> /\ r.w = World

\* the plain registry's only model is for sale in copies and its owner's
\* setSaleType has succeeded without an event
C14_Witness ==
    /\ deployment = "plain"
    /\ last.op = "setSaleType" /\ last.ok /\ last.emitted = 0
    /\ modelCounter = 1
    /\ models[0].saleType = "Copies"

\* C30: getModel of an id that was never registered (id >= count()) returns
\* the all-default record, and every registered id (id < count()) has a
\* non-zero owner: the zero owner marks exactly the ids that do not exist.
C30_ZeroOwnerMeansUnregistered ==
    \A modelId \in ModelIds :
        /\ modelId >= Count(World) => GetModel(World, modelId) = DefaultModel
        /\ modelId < Count(World) => GetModel(World, modelId).owner # ZeroAddress

\* C32: ipfsHashExists[h] is true exactly when h is the current content
\* hash of some registered model.
C32_HashFlagsMatchModels ==
    \A h \in Hashes :
        ipfsHashExists[h]
            <=> \E modelId \in Registered : models[modelId].ipfsMetadataHash = h

-----------------------------------------------------------------------------
(* Properties of the marketplace, checked under SpecMarketplace *)

\* fee is floor(paid * percent / 100)
IsFloorFee(fee, paid, percent) ==
    100 * fee <= paid * percent /\ paid * percent < 100 * (fee + 1)

\* the balances after payer's payment of paid is split: fee to the fee
\* wallet, paid - fee to the owner, nothing to anyone else
Settled(payer, paid, wallet, owner, fee) ==
    [a \in Addresses |->
        balance[a] - (IF a = payer THEN paid ELSE 0)
                   + (IF a = wallet THEN fee ELSE 0)
                   + (IF a = owner THEN paid - fee ELSE 0)]

\* one of the two transfers of the split is to an address that rejects ether
Rejected(paid, fee, wallet, owner) ==
    \/ fee > 0 /\ wallet \in NonPayable
    \/ paid - fee > 0 /\ owner \in NonPayable

\* C2: soldCopies <= totalCopies for every copy listing; soldCopies never
\* decreases, grows by exactly 1 on a successful buyCopy and is changed by
\* nothing else (the administrative functions, which are no step of
\* SpecMarketplace, are applied to every reachable state); on a listing with
\* soldCopies = totalCopies a buyCopy paying the price fails SoldOut.
C2_SoldCopiesBounded ==
    /\ [](\A id \in ModelIds :
            copySales[id].price > 0 =>
              /\ copySales[id].soldCopies <= copySales[id].totalCopies
              /\ copySales[id].soldCopies = copySales[id].totalCopies =>
                    \A b \in Buyers :
                        balance[b] >= copySales[id].price =>
                            CallBuyCopy(World, b, copySales[id].price, id).err
                                = ErrSoldOut)
    /\ [](\A sender \in AdminCallers :
            /\ \A p \in FeePercentInputs :
                  CallSetPlatformFeePercent(World, sender, p).w.copySales
                      = copySales
            /\ \A a \in FeeWalletInputs :
                  CallSetPlatformFeeWallet(World, sender, a).w.copySales
                      = copySales
            /\ deployment = "plain" =>
                  Marketplace_withdrawPlatformFees(World, sender).w.copySales
                      = copySales)
    /\ [][ /\ \A id \in ModelIds :
                copySales'[id].soldCopies >= copySales[id].soldCopies
           /\ (last'.op = "buyCopy" /\ last'.ok) =>
                \E id \in ModelIds :
                    /\ copySales'[id].soldCopies = copySales[id].soldCopies + 1
                    /\ \A other \in ModelIds \ {id} :
                          copySales'[other].soldCopies = copySales[other].soldCopies
           /\ ~(last'.op = "buyCopy" /\ last'.ok) =>
                \A id \in ModelIds :
                    copySales'[id].soldCopies = copySales[id].soldCopies
         ]_vars

\* a listing of two copies has sold both and the third buyCopy failed SoldOut
C2_Witness ==
    /\ copySales[0].totalCopies = 2 /\ copySales[0].soldCopies = 2
    /\ last.op = "buyCopy" /\ last.err = ErrSoldOut

\* C3: a successful buyCopy or subscribe paying paid moves
\* fee = floor(paid * feePercent / 100) to the fee wallet and paid - fee to
\* the model's owner; the payer is paid down, nobody else's balance changes
\* and the marketplace keeps nothing.  FusionAI_Marketplace.subscribe is
\* applied to the subscription listings of either generation, since its own
\* listItemForSubscription is always refused by FusionAI_ModelRegistry.
C3_PaymentSplitExactly ==
    \A b \in Buyers, paid \in PaymentInputs, id \in MarketIds :
        balance[b] >= paid =>
            LET buy == CallBuyCopy(World, b, paid, id)
                sub == CallSubscribe(World, b, paid, id)
                Split(r) ==
                    r.ok =>
                      \E fee \in 0 .. paid :
                        /\ IsFloorFee(fee, paid, platformFeePercent)
                        /\ fee + (paid - fee) = paid
                        /\ r.w.balance =
                             Settled(b, paid, platformFeeWallet,
                                     models[id].owner, fee)
                        /\ r.w.balance[MarketplaceAddress]
                             = balance[MarketplaceAddress]
            IN  /\ Split(buy) /\ Split(sub)
                /\ Split(Marketplace_subscribe(World, b, paid, id))

\* two payments of 50 at 5 percent are settled, the second a subscription:
\* the fee wallet holds 2 + 2, the owner 48 + 48
C3_Witness ==
    /\ last.op = "subscribe" /\ last.ok
    /\ platformFeePercent = 5
    /\ balance[Treasury] = 4 /\ balance["dev"] = 96
    /\ copySales[0].soldCopies = 1

\* C4: a buyCopy or subscribe that passes its checks and has one of its two
\* transfers rejected fails with the transfer error and leaves the whole
\* world (soldCopies, grants, every balance) as it was.
C4_RejectedTransferAborts ==
    \A b \in Buyers, paid \in PaymentInputs, id \in MarketIds :
      \A fee \in 0 .. paid :
        ( /\ balance[b] >= paid
          /\ IsFloorFee(fee, paid, platformFeePercent)
          /\ Rejected(paid, fee, platformFeeWallet, models[id].owner) ) =>
            /\ ( /\ copySales[id].price > 0
                 /\ copySales[id].soldCopies < copySales[id].totalCopies
                 /\ paid = copySales[id].price ) =>
                    LET r == CallBuyCopy(World, b, paid, id)
                    IN  ~r.ok /\ r.err = ErrTransferFailed /\ r.w = World
            /\ ( /\ subscriptions[id].rate > 0
                 /\ subscriptions[id].durationSeconds > 0
                 /\ paid >= subscriptions[id].rate ) =>
                    \A r \in { CallSubscribe(World, b, paid, id),
                               Marketplace_subscribe(World, b, paid, id) } :
                        ~r.ok /\ r.err = ErrTransferFailed /\ r.w = World

\* the owner rejects its payout after the fee went to the fee wallet: the
\* buyCopy failed and no balance and no counter moved
C4_Witness ==
    /\ last.op = "buyCopy" /\ last.err = ErrTransferFailed
    /\ models[0].owner = Vault /\ platformFeeWallet = Treasury
    /\ platformFeePercent = 5
    /\ copySales[0].price > 0 /\ copySales[0].soldCopies = 0
    /\ balance = InitialBalance

\* the fee does not exceed the payment and the two transfers of the split
\* can both be made
Settles(paid, percent, wallet, owner) ==
    \E fee \in 0 .. paid :
        IsFloorFee(fee, paid, percent) /\ ~Rejected(paid, fee, wallet, owner)

\* two distinct buyers that can each pay the price of a listing with
\* exactly one copy left
LastCopyRace(id, b1, b2) ==
    /\ copySales[id].price > 0
    /\ copySales[id].soldCopies + 1 = copySales[id].totalCopies
    /\ b1 # b2
    /\ balance[b1] >= copySales[id].price
    /\ balance[b2] >= copySales[id].price

\* C5 as stated: of two correctly paid buyCopy calls for the last copy the
\* one committed first succeeds and the other fails SoldOut and changes
\* nothing, in either order.
C5_ExactlyOneBuyerWins ==
    \A id \in MarketIds, b1 \in Buyers, b2 \in Buyers :
        LastCopyRace(id, b1, b2) =>
            LET r1 == CallBuyCopy(World, b1, copySales[id].price, id)
                r2 == CallBuyCopy(r1.w, b2, copySales[id].price, id)
            IN  r1.ok /\ ~r2.ok /\ r2.err = ErrSoldOut /\ r2.w = r1.w

\* C5 amended: at most one of the two calls succeeds, in either order.  When
\* the split can be paid out the first committed call succeeds and the
\* second fails SoldOut and changes nothing; when it cannot (a recipient
\* rejects its transfer, or the fee exceeds the payment) both calls fail,
\* nothing changes and the copy stays unsold.
C5_AtMostOneBuyerWins ==
    \A id \in MarketIds, b1 \in Buyers, b2 \in Buyers :
        LastCopyRace(id, b1, b2) =>
            LET price == copySales[id].price
                r1 == CallBuyCopy(World, b1, price, id)
                r2 == CallBuyCopy(r1.w, b2, price, id)
            IN  /\ ~(r1.ok /\ r2.ok)
                /\ Settles(price, platformFeePercent, platformFeeWallet,
                           models[id].owner) <=> r1.ok
                /\ r1.ok =>
                     /\ ~r2.ok /\ r2.err = ErrSoldOut /\ r2.w = r1.w
                     /\ r1.w.copySales[id].soldCopies = copySales[id].totalCopies
                /\ ~r1.ok =>
                     /\ r1.w = World
                     /\ ~r2.ok /\ r2.err = r1.err /\ r2.w = World

\* the last copy went to one buyer and the other buyer, who could pay, got
\* SoldOut
C5_Witness ==
    /\ last.op = "buyCopy" /\ last.err = ErrSoldOut
    /\ copySales[0].totalCopies = 1 /\ copySales[0].soldCopies = 1
    /\ \E b \in Buyers : balance[b] = InitialBalance[b] - copySales[0].price
    /\ \E b \in Buyers : balance[b] = InitialBalance[b]
                          /\ balance[b] >= copySales[0].price

\* C15 as stated: once a model is listed for copies, every listItemForCopies
\* call on it, with any caller and arguments, fails with the already-listed
\* error and changes nothing.
C15_RelistingFailsAlreadyListed ==
    \A modelId \in MarketIds :
        copySales[modelId].price > 0 =>
            \A sender \in ListingCallers, price \in PriceInputs,
               totalCopies \in 0 .. MaxCopies :
                LET r == CallListItemForCopies(World, sender, modelId, price,
                                               totalCopies)
                IN  ~r.ok /\ r.err = ErrAlreadyListedForCopies /\ r.w = World

\* C15 amended: once a model is listed for copies, every listItemForCopies
\* call on it fails and changes nothing, and the listing's price and
\* totalCopies never change again.  The error is the already-listed error
\* when the caller is the model's owner and price and totalCopies are
\* positive; otherwise it is the error of the check that comes first
\* (NotModelOwner, InvalidPrice or InvalidTotalCopies).
C15_RelistingFails ==
    /\ [](\A modelId \in MarketIds :
            copySales[modelId].price > 0 =>
              \A sender \in ListingCallers, price \in PriceInputs,
                 totalCopies \in 0 .. MaxCopies :
                  LET r == CallListItemForCopies(World, sender, modelId, price,
                                                 totalCopies)
                      valid == /\ sender = models[modelId].owner
                               /\ price > 0 /\ totalCopies > 0
                  IN  /\ ~r.ok /\ r.w = World
                      /\ valid => r.err = ErrAlreadyListedForCopies
                      /\ ~valid => r.err \in {ErrMarketNotModelOwner,
                                              ErrInvalidPrice,
                                              ErrInvalidTotalCopies})
    /\ [][\A modelId \in MarketIds :
            copySales[modelId].price > 0 =>
              /\ copySales'[modelId].price = copySales[modelId].price
              /\ copySales'[modelId].totalCopies = copySales[modelId].totalCopies
         ]_vars

\* the owner's second listing of a model with one copy sold was refused as
\* already listed
C15_Witness ==
    /\ last.op = "listItemForCopies" /\ ~last.ok
    /\ last.err = ErrAlreadyListedForCopies
    /\ copySales[0].price > 0 /\ copySales[0].soldCopies = 1

\* C16: buyCopy on a listing with soldCopies = totalCopies fails with the
\* sold-out error whatever the payment and changes nothing.
C16_SoldOutWhateverThePayment ==
    \A modelId \in MarketIds, b \in Buyers, paid \in PaymentInputs :
        ( /\ copySales[modelId].price > 0
          /\ copySales[modelId].soldCopies = copySales[modelId].totalCopies
          /\ balance[b] >= paid ) =>
            LET r == CallBuyCopy(World, b, paid, modelId)
            IN  ~r.ok /\ r.err = ErrSoldOut /\ r.w = World

\* C17: buyCopy on a listed model with copies left succeeds only when the
\* payment equals the price; a lower or higher payment fails with
\* IncorrectPayment and changes nothing.
C17_ExactPaymentOnly ==
    \A modelId \in MarketIds, b \in Buyers, paid \in PaymentInputs :
        ( /\ copySales[modelId].price > 0
          /\ copySales[modelId].soldCopies < copySales[modelId].totalCopies
          /\ balance[b] >= paid ) =>
            LET r == CallBuyCopy(World, b, paid, modelId)
            IN  /\ r.ok => paid = copySales[modelId].price
                /\ paid # copySales[modelId].price =>
                      ~r.ok /\ r.err = ErrIncorrectPayment /\ r.w = World

\* C21: a successful listItemForCopies(id, price, n) is made by the model's
\* owner, stores the listing (price, n, soldCopies = 0), leaves the model's
\* registry saleType at Copies and emits ItemListedForCopies.
C21_ListingForCopiesSyncsRegistry ==
    \A sender \in ListingCallers, modelId \in MarketIds, price \in PriceInputs,
       totalCopies \in 0 .. MaxCopies :
        LET r == CallListItemForCopies(World, sender, modelId, price, totalCopies)
        IN  r.ok =>
              /\ sender = models[modelId].owner
              /\ r.w.copySales[modelId] =
                    [price |-> price, totalCopies |-> totalCopies, soldCopies |-> 0]
              /\ GetModel(r.w, modelId).saleType = "Copies"
              /\ r.events # <<>>
              /\ r.events[Len(r.events)] =
                    EvItemListedForCopies(modelId, sender, price, totalCopies)

\* C22: listItemForSubscription(id, rate, duration) by the model's owner
\* succeeds whether or not a subscription listing exists, stores exactly
\* (rate, duration) and leaves the model's registry saleType at Subscription.
C22_OwnerCanAlwaysListSubscription ==
    \A sender \in ListingCallers, modelId \in MarketIds, rate \in RateInputs,
       durationSeconds \in DurationInputs :
        sender = models[modelId].owner =>
            LET r == CallListItemForSubscription(World, sender, modelId, rate,
                                                 durationSeconds)
            IN  /\ r.ok
                /\ r.w.subscriptions[modelId] =
                      [rate |-> rate, durationSeconds |-> durationSeconds]
                /\ GetModel(r.w, modelId).saleType = "Subscription"

\* what the contracts keep in storage in world w: all of it but the balances
Stored(w) == [w EXCEPT !.balance = InitialBalance]

\* a call that emits has succeeded and has changed the stored state
EmitsOnlyOnChange(r) ==
    r.events # <<>> => r.ok /\ Stored(r.w) # Stored(World)

\* C25: no call that fails or that leaves the stored state unchanged emits
\* an event, for every function that emits one.
C25_EventsOnlyOnChange ==
    /\ \A sender \in ListingCallers, hash \in Hashes, saleType \in SaleTypeInputs :
          EmitsOnlyOnChange(CallRegisterModel(World, sender, hash, saleType))
    /\ \A sender \in ListingCallers \cup {MarketplaceAddress},
          modelId \in MarketIds :
          /\ \A newHash \in Hashes :
                EmitsOnlyOnChange(
                    CallUpdateModelMetadata(World, sender, modelId, newHash))
          /\ \A saleType \in SaleType :
                EmitsOnlyOnChange(
                    CallSetSaleType(World, sender, modelId, saleType))
    /\ \A sender \in ListingCallers, modelId \in MarketIds :
          /\ \A price \in PriceInputs, totalCopies \in 0 .. MaxCopies :
                EmitsOnlyOnChange(
                    CallListItemForCopies(World, sender, modelId, price,
                                          totalCopies))
          /\ \A rate \in RateInputs, durationSeconds \in DurationInputs :
                EmitsOnlyOnChange(
                    CallListItemForSubscription(World, sender, modelId, rate,
                                                durationSeconds))
    /\ \A sender \in Buyers, value \in PaymentInputs, modelId \in MarketIds :
          /\ EmitsOnlyOnChange(CallBuyCopy(World, sender, value, modelId))
          /\ EmitsOnlyOnChange(CallSubscribe(World, sender, value, modelId))
    /\ \A sender \in AdminCallers :
          /\ deployment = "plain" =>
                EmitsOnlyOnChange(Marketplace_withdrawPlatformFees(World, sender))
          /\ \A approved \in BOOLEAN :
                deployment = "upgradeable" =>
                    EmitsOnlyOnChange(
                        RegistryUp_setOperator(World, sender,
                                               MarketplaceAddress, approved))

\* C26: listItemForCopies with price > 0 and totalCopies > 0 on an id that
\* was never registered fails with InvalidModelId for every caller and
\* creates no listing.
C26_UnregisteredIdIsInvalid ==
    \A sender \in ListingCallers, modelId \in MarketIds, price \in PriceInputs,
       totalCopies \in 1 .. MaxCopies :
        price > 0 /\ modelId \notin Registered =>
            LET r == CallListItemForCopies(World, sender, modelId, price,
                                           totalCopies)
            IN  ~r.ok /\ r.err = ErrInvalidModelId /\ r.w = World

\* the registry refuses the marketplace's setSaleType(modelId, saleType)
SyncRejected(modelId, saleType) ==
    ~CallSetSaleType(World, MarketplaceAddress, modelId, saleType).ok

\* the call failed as a whole
FailsAsAWhole(r) == ~r.ok /\ r.w = World /\ r.events = <<>>

\* C27: while the registry refuses the marketplace's setSaleType write, the
\* owner's listItemForCopies and listItemForSubscription fail as a whole:
\* no listing is stored or overwritten, the registry is unchanged and
\* nothing is emitted.
C27_RejectedSyncAbortsListing ==
    \A sender \in ListingCallers, modelId \in MarketIds :
        sender = models[modelId].owner =>
            /\ \A price \in PriceInputs, totalCopies \in 0 .. MaxCopies :
                  SyncRejected(modelId, "Copies") =>
                      FailsAsAWhole(CallListItemForCopies(World, sender, modelId,
                                                          price, totalCopies))
            /\ \A rate \in RateInputs, durationSeconds \in DurationInputs :
                  SyncRejected(modelId, "Subscription") =>
                      FailsAsAWhole(CallListItemForSubscription(
                                        World, sender, modelId, rate,
                                        durationSeconds))

\* the copy listing of modelId is absent or has a price and a capacity
WellFormedCopySale(sale) ==
    sale.price = 0 \/ (sale.price > 0 /\ sale.totalCopies > 0)

\* C29: every copy listing is absent (price 0) or has a price above zero
\* and totalCopies above zero, and once a listing exists no step changes
\* its price or its totalCopies; only soldCopies moves, and only upwards.
C29_CopyListingImmutable ==
    /\ [](\A modelId \in ModelIds : WellFormedCopySale(copySales[modelId]))
    /\ [][\A modelId \in ModelIds :
            copySales[modelId].price > 0 =>
                /\ copySales'[modelId].price = copySales[modelId].price
                /\ copySales'[modelId].totalCopies
                      = copySales[modelId].totalCopies
                /\ copySales'[modelId].soldCopies
                      >= copySales[modelId].soldCopies
         ]_vars

\* one of two copies sold, the listing still reads 50 wei for 2 copies
C29_Witness ==
    /\ last.op = "buyCopy" /\ last.ok
    /\ copySales[0] = [price |-> 50, totalCopies |-> 2, soldCopies |-> 1]

\* C31: on a model that has a copy listing, the owner's
\* listItemForSubscription succeeds and leaves both listings stored, with
\* the registry's saleType that of the later call, Subscription.
C31_ListingsCoexist ==
    \A sender \in ListingCallers, modelId \in MarketIds, rate \in RateInputs,
       durationSeconds \in DurationInputs :
        ( /\ sender = models[modelId].owner
          /\ copySales[modelId].price > 0
          /\ rate > 0 ) =>
            LET r == CallListItemForSubscription(World, sender, modelId, rate,
                                                 durationSeconds)
            IN  /\ r.ok
                /\ r.w.copySales[modelId] = copySales[modelId]
                /\ r.w.subscriptions[modelId]
                      = [rate |-> rate, durationSeconds |-> durationSeconds]
                /\ GetModel(r.w, modelId).saleType = "Subscription"

\* accounts of the marketplace specification that send transactions
Accounts == ListingCallers \cup Buyers \cup AdminCallers

\* sender is neither the owner of modelId, an operator nor the administrator
Stranger(sender, modelId) ==
    /\ sender # models[modelId].owner
    /\ ~operators[sender]
    /\ sender \notin {registryOwner, marketOwner}

\* what a listing call can create or replace for modelId, and its sale type
ListingState(w, modelId) ==
    <<w.models[modelId].saleType, w.copySales[modelId].price,
      w.copySales[modelId].totalCopies, w.subscriptions[modelId]>>

\* C34: no call of the registry or of the marketplace by an account that is
\* neither the model's owner, an approved operator nor the administrator
\* changes the model's saleType or creates or replaces its copy or
\* subscription listing.
C34_StrangersCannotList ==
    \A sender \in Accounts, modelId \in Registered :
        Stranger(sender, modelId) =>
            LET Kept(r) == ListingState(r.w, modelId) = ListingState(World, modelId)
            IN  /\ \A saleType \in SaleType :
                      Kept(CallSetSaleType(World, sender, modelId, saleType))
                /\ \A hash \in Hashes :
                      /\ Kept(CallUpdateModelMetadata(World, sender, modelId, hash))
                      /\ \A saleType \in SaleType :
                            Kept(CallRegisterModel(World, sender, hash, saleType))
                /\ \A price \in PriceInputs, totalCopies \in 0 .. MaxCopies :
                      LET r == CallListItemForCopies(World, sender, modelId,
                                                     price, totalCopies)
                      IN  ~r.ok /\ r.w = World
                /\ \A rate \in RateInputs, durationSeconds \in DurationInputs :
                      LET r == CallListItemForSubscription(World, sender, modelId,
                                                           rate, durationSeconds)
                      IN  ~r.ok /\ r.w = World
                /\ \A value \in PaymentInputs :
                      balance[sender] >= value =>
                          /\ Kept(CallBuyCopy(World, sender, value, modelId))
                          /\ Kept(CallSubscribe(World, sender, value, modelId))

\* the marketplace is an approved operator, dev's model is listed in copies
\* and another account's listItemForSubscription on it was refused
C34_Witness ==
    /\ deployment = "upgradeable"
    /\ operators[MarketplaceAddress]
    /\ models[0].owner = "dev" /\ copySales[0].price > 0
    /\ last.op = "listItemForSubscription" /\ ~last.ok
    /\ last.err = ErrMarketNotModelOwner
    /\ subscriptions[0] = DefaultSubscription

\* world w with the registry's sale type of modelId set to saleType
WithSaleType(w, modelId, saleType) ==
    [w EXCEPT !.models[modelId].saleType = saleType]

\* the calls r and q had the same outcome, and the world after q is the
\* world after r but for the sale type of modelId
SameOutcomeBut(r, q, modelId, saleType) ==
    /\ q.ok = r.ok /\ q.err = r.err /\ q.ret = r.ret /\ q.events = r.events
    /\ q.w = WithSaleType(r.w, modelId, saleType)

\* C36: buyCopy and subscribe do not depend on the registry's saleType:
\* from the reached state and from the state that differs from it only in
\* the sale type of a model, the same call ends the same way and changes
\* listings, grants and balances the same way.
C36_SalesIgnoreSaleType ==
    \A sender \in Buyers, value \in PaymentInputs, modelId \in MarketIds,
       changed \in MarketIds, saleType \in SaleType :
        balance[sender] >= value =>
            LET other == WithSaleType(World, changed, saleType)
            IN  /\ SameOutcomeBut(CallBuyCopy(World, sender, value, modelId),
                                  CallBuyCopy(other, sender, value, modelId),
                                  changed, saleType)
                /\ SameOutcomeBut(CallSubscribe(World, sender, value, modelId),
                                  CallSubscribe(other, sender, value, modelId),
                                  changed, saleType)
                /\ SameOutcomeBut(
                      Marketplace_subscribe(World, sender, value, modelId),
                      Marketplace_subscribe(other, sender, value, modelId),
                      changed, saleType)

\* a copy was sold after the model's sale type had become Subscription
C36_Witness ==
    /\ deployment = "upgradeable"
    /\ models[0].saleType = "Subscription"
    /\ last.op = "buyCopy" /\ last.ok
    /\ copySales[0].soldCopies > 0

-----------------------------------------------------------------------------
(* Properties of subscriptions, checked under SpecSubscription *)

\* C18: a successful subscribe(id) by s at time now sets s's expiry to the
\* previous expiry plus the listing's duration when the previous expiry is
\* >= now, and to now plus the duration when it is smaller (expired) or 0
\* (absent).  FusionAI_Marketplace.subscribe is applied to the listings of
\* either generation.
C18_SubscribeSetsExpiry ==
    \A s \in Buyers, paid \in PaymentInputs, modelId \in MarketIds :
        balance[s] >= paid =>
            LET previous == userSubscriptions[modelId][s]
                duration == subscriptions[modelId].durationSeconds
                expected == IF previous >= now THEN previous + duration
                            ELSE now + duration
                Sets(r) ==
                    r.ok =>
                      /\ r.w.userSubscriptions[modelId][s] = expected
                      /\ r.events = <<EvSubscribed(modelId, s, expected)>>
            IN  /\ Sets(CallSubscribe(World, s, paid, modelId))
                /\ Sets(Marketplace_subscribe(World, s, paid, modelId))

\* at time 2 alice holds an expiry of 3 after two subscriptions (the second
\* one extended an active grant) and bob's first subscription has just set
\* his expiry to now + 1
C18_Witness ==
    /\ last.op = "subscribe" /\ last.ok
    /\ now = 2
    /\ subscriptions[0].durationSeconds = 1
    /\ userSubscriptions[0]["alice"] = 3 /\ balance["alice"] = 0
    /\ userSubscriptions[0]["bob"] = 3 /\ balance["bob"] = 0

\* C19: checkSubscription(id, s) is true exactly when the stored expiry is
\* >= now.  A grant changes only by a successful subscribe, which leaves it
\* active; a first subscribe at time T stores T + duration; time never runs
\* backwards: so the check is true from T to T + duration and false from
\* then on until s subscribes again.
C19_CheckSubscriptionBoundary ==
    /\ [](\A modelId \in MarketIds, s \in Addresses :
            /\ CallCheckSubscription(World, modelId, s)
                  <=> userSubscriptions[modelId][s] >= now
            /\ Marketplace_checkSubscription(World, modelId, s)
                  <=> userSubscriptions[modelId][s] >= now)
    /\ [][ /\ now' >= now
           /\ \A modelId \in MarketIds, s \in Addresses :
                LET before == userSubscriptions[modelId][s]
                    after == userSubscriptions'[modelId][s]
                IN  /\ after # before =>
                          /\ last'.op = "subscribe" /\ last'.ok
                          /\ CallCheckSubscription(World', modelId, s)
                          /\ before = 0 =>
                                after = now + subscriptions[modelId].durationSeconds
                    /\ after = before =>
                          (CallCheckSubscription(World', modelId, s)
                              <=> now' <= before)
         ]_vars

\* at time 3 alice's grant expires at 3 and is active, bob's expired at 2
C19_Witness ==
    /\ now = 3
    /\ userSubscriptions[0]["alice"] = 3
    /\ CallCheckSubscription(World, 0, "alice")
    /\ userSubscriptions[0]["bob"] = 2
    /\ ~CallCheckSubscription(World, 0, "bob")

\* C28: every subscription listing is absent (rate 0 and duration 0) or has
\* a rate above zero and a duration above zero, and no successful
\* listItemForSubscription stores a zero rate or a zero duration.
C28_SubscriptionTermsPositive ==
    /\ \A modelId \in ModelIds :
          \/ subscriptions[modelId] = [rate |-> 0, durationSeconds |-> 0]
          \/ /\ subscriptions[modelId].rate > 0
             /\ subscriptions[modelId].durationSeconds > 0
    /\ \A sender \in ListingCallers, modelId \in MarketIds, rate \in RateInputs,
          durationSeconds \in {0} \cup DurationInputs :
          LET r == CallListItemForSubscription(World, sender, modelId, rate,
                                               durationSeconds)
          IN  r.ok => /\ r.w.subscriptions[modelId].rate > 0
                      /\ r.w.subscriptions[modelId].durationSeconds > 0

\* the successful subscribe r of s to modelId raised s's expiry for modelId
\* and wrote no other grant, no listing and no soldCopies counter
RaisesOwnGrantOnly(r, s, modelId) ==
    r.ok =>
        /\ r.w.userSubscriptions[modelId][s] > userSubscriptions[modelId][s]
        /\ r.w.userSubscriptions
              = [userSubscriptions EXCEPT
                    ![modelId][s] = r.w.userSubscriptions[modelId][s]]
        /\ r.w.copySales = copySales
        /\ r.w.subscriptions = subscriptions

\* the call r wrote no grant
KeepsGrants(r) == r.w.userSubscriptions = userSubscriptions

\* C37: no stored expiry ever decreases; a successful subscribe strictly
\* increases the caller's own expiry for the model and leaves every other
\* grant, every listing and every soldCopies counter unchanged; no other
\* operation, replacing the subscription listing included, changes a grant.
C37_GrantsOnlyGrow ==
    /\ [](\A s \in Buyers, paid \in PaymentInputs, modelId \in MarketIds :
            balance[s] >= paid =>
                /\ RaisesOwnGrantOnly(CallSubscribe(World, s, paid, modelId),
                                      s, modelId)
                /\ RaisesOwnGrantOnly(
                        Marketplace_subscribe(World, s, paid, modelId),
                        s, modelId)
                /\ KeepsGrants(CallBuyCopy(World, s, paid, modelId)))
    /\ [](\A sender \in ListingCallers, modelId \in MarketIds :
            /\ \A rate \in RateInputs, durationSeconds \in DurationInputs :
                  KeepsGrants(CallListItemForSubscription(
                                  World, sender, modelId, rate, durationSeconds))
            /\ \A price \in PriceInputs, totalCopies \in 0 .. MaxCopies :
                  KeepsGrants(CallListItemForCopies(World, sender, modelId,
                                                    price, totalCopies)))
    /\ [][/\ \A modelId \in ModelIds, s \in Addresses :
                userSubscriptions'[modelId][s] >= userSubscriptions[modelId][s]
          /\ userSubscriptions' # userSubscriptions =>
                last'.op = "subscribe" /\ last'.ok
          /\ (last'.op = "subscribe" /\ last'.ok) =>
                /\ copySales' = copySales /\ subscriptions' = subscriptions
                /\ \E modelId \in MarketIds, s \in Buyers :
                      /\ userSubscriptions'[modelId][s]
                            > userSubscriptions[modelId][s]
                      /\ userSubscriptions'
                            = [userSubscriptions EXCEPT
                                  ![modelId][s] = userSubscriptions'[modelId][s]]
         ]_vars

\* the owner has relisted the subscription while alice and bob held grants,
\* and alice's grant, extended while active, runs past the next period
C37_Witness ==
    /\ last.op = "listItemForSubscription" /\ last.ok
    /\ now = 1
    /\ userSubscriptions[0]["alice"] = 3
    /\ userSubscriptions[0]["bob"] = 2

-----------------------------------------------------------------------------
(* Properties of the fee configuration, checked under SpecAdministration *)

\* C20: platformFeePercent is in 0 .. 100 in every reachable state, the
\* state right after an accepted construction or initialization included,
\* and setPlatformFeePercent with a value above 100 fails (with the
\* invalid-percent error for the administrator) and changes nothing.
C20_FeePercentInRange ==
    /\ platformFeePercent \in 0 .. 100
    /\ \A sender \in AdminCallers, newFeePercent \in FeePercentInputs :
          newFeePercent > 100 =>
            LET r == CallSetPlatformFeePercent(World, sender, newFeePercent)
            IN  /\ ~r.ok /\ r.w = World
                /\ sender = marketOwner => r.err = ErrInvalidFeePercent

-----------------------------------------------------------------------------
(* Properties of the administrator's functions, checked under SpecTreasury *)

\* accounts other than the administrator of the marketplace
Outsiders(w) == Addresses \ {w.marketOwner}

\* C23: setPlatformFeePercent, setPlatformFeeWallet, withdrawPlatformFees
\* and setOperator called by an account other than the administrator fail
\* and change nothing, and the fee configuration, the operator whitelist
\* and a decrease of the marketplace balance come only from a successful
\* call of the matching function.
C23_AdministratorOnly ==
    /\ [][/\ \A sender \in Outsiders(World) :
              /\ \A newFeePercent \in FeePercentInputs :
                    LET r == CallSetPlatformFeePercent(World, sender, newFeePercent)
                    IN  ~r.ok /\ r.err = ErrOwnableUnauthorized /\ r.w = World
              /\ \A newWallet \in FeeWalletInputs :
                    LET r == CallSetPlatformFeeWallet(World, sender, newWallet)
                    IN  ~r.ok /\ r.err = ErrOwnableUnauthorized /\ r.w = World
              /\ deployment = "plain" =>
                    LET r == Marketplace_withdrawPlatformFees(World, sender)
                    IN  ~r.ok /\ r.err = ErrOwnableUnauthorized /\ r.w = World
          /\ \A sender \in Addresses \ {registryOwner}, approved \in BOOLEAN :
              deployment = "upgradeable" =>
                    LET r == RegistryUp_setOperator(World, sender,
                                                    MarketplaceAddress, approved)
                    IN  ~r.ok /\ r.err = ErrOwnableUnauthorized /\ r.w = World
          /\ platformFeePercent' # platformFeePercent =>
                last'.op = "setPlatformFeePercent" /\ last'.ok
          /\ platformFeeWallet' # platformFeeWallet =>
                last'.op = "setPlatformFeeWallet" /\ last'.ok
          /\ operators' # operators => last'.op = "setOperator" /\ last'.ok
          /\ balance'[MarketplaceAddress] < balance[MarketplaceAddress] =>
                last'.op = "withdrawPlatformFees" /\ last'.ok
         ]_vars

\* alice, not the administrator, was refused the marketplace's 50 wei
C23_Witness ==
    /\ last.op = "withdrawPlatformFees"
    /\ ~last.ok
    /\ last.err = ErrOwnableUnauthorized
    /\ balance[MarketplaceAddress] = ForcedEther

\* withdrawPlatformFees of the administrator, given that the fee recipient
\* accepts ether when accept is TRUE
WithdrawalSweeps(accept) ==
    deployment = "plain" =>
        LET r == Marketplace_withdrawPlatformFees(World, marketOwner)
            held == balance[MarketplaceAddress]
        IN  /\ held = 0 =>
                  ~r.ok /\ r.err = ErrNoFeesToWithdraw /\ r.w = World
            /\ held > 0 /\ accept =>
                  /\ r.ok
                  /\ r.w.balance[MarketplaceAddress] = 0
                  /\ r.w.balance[platformFeeWallet]
                        = balance[platformFeeWallet] + held
                  /\ r.events = <<EvPlatformFeesWithdrawn(marketOwner, held)>>
            /\ held > 0 /\ ~accept =>
                  ~r.ok /\ r.err = ErrTransferFailed /\ r.w = World

\* C24 as stated: withdrawPlatformFees called by the administrator fails
\* with NoFeesToWithdraw on a zero balance and otherwise moves the whole
\* balance of the marketplace to the fee recipient.
C24_WithdrawalSweepsBalance == WithdrawalSweeps(TRUE)

\* C24: withdrawPlatformFees called by the administrator fails with
\* NoFeesToWithdraw on a zero balance; on a positive balance it moves the
\* whole balance to the fee recipient when the recipient accepts ether,
\* and fails with TransferFailed, changing nothing, when it does not.
C24_WithdrawalSweepsOrAborts ==
    WithdrawalSweeps(platformFeeWallet \notin NonPayable)

\* the administrator swept the forced 50 wei to the treasury
C24_Witness ==
    /\ last.op = "withdrawPlatformFees"
    /\ last.ok
    /\ balance[MarketplaceAddress] = 0
    /\ platformFeeWallet = Treasury
    /\ balance[Treasury] >= ForcedEther

-----------------------------------------------------------------------------
(* Properties of re-entering recipients, checked under SpecReentrancy *)

\* C33: a seller or fee recipient that calls buyCopy or subscribe from its
\* payment callback gets no second settlement inside the first: the nested
\* call is rejected, soldCopies grows by at most one and stays within
\* totalCopies, one event is emitted, and grants and balances end as they
\* do when nobody calls back.
C33_NoNestedSettlement ==
    \A sender \in Buyers, value \in PaymentInputs, modelId \in MarketIds,
       recipient \in ReentrantRecipients, hook \in Hooks :
        balance[sender] >= value =>
            LET b == CallBuyCopyReentered(World, sender, value, modelId,
                                          recipient, hook)
                s == CallSubscribeReentered(World, sender, value, modelId,
                                            recipient, hook)
            IN  /\ nonReentrant(World, TRUE,
                                CallBuyCopy(World, recipient, value, modelId)).err
                      = ErrReentrantCall
                /\ nonReentrant(World, TRUE,
                                CallSubscribe(World, recipient, value, modelId)).err
                      = ErrReentrantCall
                /\ \A id \in ModelIds :
                      /\ b.w.copySales[id].soldCopies
                            <= copySales[id].soldCopies + 1
                      /\ b.w.copySales[id].soldCopies
                            <= b.w.copySales[id].totalCopies
                      /\ s.w.copySales[id] = copySales[id]
                /\ Len(b.events) <= 1 /\ Len(s.events) <= 1
                /\ b.w.balance = CallBuyCopy(World, sender, value, modelId).w.balance
                /\ b.w.userSubscriptions = userSubscriptions
                /\ s.w.balance = CallSubscribe(World, sender, value, modelId).w.balance
                /\ s.w.userSubscriptions
                      = CallSubscribe(World, sender, value, modelId).w.userSubscriptions
                /\ ~b.ok => b.w = World
                /\ ~s.ok => s.w = World

\* the last copy of an upgradeable listing was sold to a buyer while the
\* seller, paid 50 wei, tried to buy it again from its callback
C33_Witness ==
    /\ deployment = "upgradeable"
    /\ last.op = "buyCopy" /\ last.ok
    /\ copySales[0].totalCopies = 1 /\ copySales[0].soldCopies = 1
    /\ models[0].owner = "dev" /\ balance["dev"] >= copySales[0].price

-----------------------------------------------------------------------------
(* Properties of the marketplace's own balance, checked under SpecFunds *)

\* no buyCopy and no subscribe, successful or failed, changes the balance of
\* the marketplace
SalesKeepNothing ==
    \A sender \in Buyers, value \in PaymentInputs, modelId \in MarketIds :
        balance[sender] >= value =>
            /\ CallBuyCopy(World, sender, value, modelId)
                    .w.balance[MarketplaceAddress] = balance[MarketplaceAddress]
            /\ CallSubscribe(World, sender, value, modelId)
                    .w.balance[MarketplaceAddress] = balance[MarketplaceAddress]
            /\ Marketplace_subscribe(World, sender, value, modelId)
                    .w.balance[MarketplaceAddress] = balance[MarketplaceAddress]

====
